---- MODULE Spec2Model ----
(***************************************************************************)
(* A model of the ingestion pipeline of github-delivery-visibility:        *)
(*   - BigQueryLoader (bigquery_loader.py): staging append + MERGE upsert   *)
(*     of pull requests, reviews, files and labels;                         *)
(*   - GitHubCollector (collector.py) with PRCache (cache.py): listing,     *)
(*     cache read-through and enrichment;                                   *)
(*   - GitHubCollector._get_all_pages: pagination;                         *)
(*   - GitHubCollector._make_request: rate-limit gate and retry loop;      *)
(*   - PRCache at the level of its entry and index files;                  *)
(*   - EmbeddingGenerator.generate_batch_embeddings (embeddings.py);       *)
(*   - an ingest from listing to MERGE (scripts/backfill_data.py).         *)
(* Each component has its own specification (SpecLoad, SpecFetch,          *)
(* SpecPages, SpecRequest, SpecCache, SpecEmbed, SpecIngest) over its own  *)
(* variables; SpecOpen and SpecRerun follow get_open_prs and               *)
(* get_merged_prs on their own, with the list item of a pass and the       *)
(* progress of a stopped call kept, SpecMetadata with the metadata         *)
(* requests counted, SpecRefetch with the entries stored after a failed    *)
(* fetch kept; SpecAnyOrder takes the per-kind loads of a run in any       *)
(* order, SpecOverlap two load runs of one kind that overlap, SpecDirs     *)
(* PRCache with the directories of its repositories.  Spec is the          *)
(* interleaving of all.                                                    *)
(***************************************************************************)
EXTENDS Bags, FiniteSets, Integers, Sequences, TLC

VARIABLES
    \* ---- BigQueryLoader ----
    prod,            \* production tables: kind -> bag of rows
    staging,         \* staging tables: kind -> bag of rows (WRITE_APPEND)
    clock,           \* last value read from datetime.now(timezone.utc)
    loads,           \* number of load_pull_requests calls started
    lpc,             \* position of the running call: "idle", "stage", "merge"
    lkind,           \* index in KindOrder of the kind being processed
    lrepo,           \* repo_name argument of the running / last call
    lprs,            \* pull_requests argument of the running / last call
    lcounts,         \* per-kind counts returned so far by the running call
    lret,            \* the dict the last call returned, as a set of <<key, value>>
    lfailed,         \* index of the kind whose step raised in the last call (0: none)
    merged_in_call,  \* kinds whose MERGE completed in the running / last call
    staged_in_call,  \* the kinds whose staging append completed in the running / last call
    faults,          \* number of failures injected so far (backend, load job, MERGE)
    prev_call,       \* [repo, prs, ok] of the call before the last one
    prod_before,     \* the production tables when the last call started
    \* ---- GitHubCollector._get_all_pages ----
    gpc,             \* "idle", "request" (in the loop), "returned", "raised"
    gsrc,            \* the listing: [static, total] (static: total items that
                     \* do not change; otherwise any response to any request)
    gper_page,       \* int(current_params['per_page'])
    gpage,           \* page
    gitems,          \* len(all_items)
    greqs,           \* _make_request calls made for this listing
    glast,           \* the last response: its length, SingleItem or Raised
    gresult,         \* the length of the list returned
    \* ---- GitHubCollector.get_merged_prs / get_open_prs with PRCache ----
    cache,           \* the repository's cache directory: number -> snapshot
    is_public_repo,  \* self._is_public_repo: "None" or the visibility
    fpc,             \* "idle", "loop" (over pr_data), "returned", "raised"
    fop,             \* the running / last operation: "merged" or "open"
    fsince,          \* since of the running / last get_merged_prs
    funtil,          \* until of the running / last get_merged_prs
    fleft,           \* items of pr_data the loop has not reached yet
    fresult,         \* merged_prs / open_prs
    fobs,            \* what the last pass of the loop did with its item
    fexc,            \* the exception the last operation raised, "None" if none
    flisted,         \* the title of the list item of the last get_open_prs pass
    fpartial,        \* the numbers collected by the call that stopped part-way,
    fmeta,           \* calls of get_repository_info so far (up to MaxMetadata)
    fincomplete,     \* cache entries stored after a failed files / reviews fetch
                     \* while the running get_merged_prs repeats its window
    \* ---- GitHubCollector._make_request ----
    rate_limit_remaining,  \* self.rate_limit_remaining
    rate_limit_reset,      \* self.rate_limit_reset, as an instant
    rnow,             \* the wall clock, datetime.now()
    rpc,             \* "idle", "attempt" (in the retry loop), "returned", "raised"
    max_retries,     \* the max_retries argument of the running / last call
    rcalls,          \* urlopen calls made by the running / last call
    rsleeps,         \* backoff sleeps made by the running / last call
    rlast,           \* what the last urlopen call met
    rexc,            \* the exception the last call raised, "None" if none
    rheaders,        \* <<X-RateLimit-Remaining, X-RateLimit-Reset>> of the last
                     \* response received, NoHeaders when there was none
    \* ---- PRCache, at the level of its files ----
    cfiles,          \* <<repository, number>> -> what pr_<number>.json holds
    cindex,          \* repository -> what index.json holds
    cres,            \* the last cache operation and its result
    \* ---- EmbeddingGenerator.generate_batch_embeddings ----
    epc,             \* "idle", "loop" (over the batches), "returned"
    etexts,          \* texts
    ebatch_size,     \* batch_size
    ei,              \* i: the offset of the next batch
    all_embeddings,  \* all_embeddings
    ereqs,           \* the backend requests made: [batch_num, contents]
    efailed,         \* the batch_num of the requests that raised
    \* ---- an ingest: scripts/backfill_data.py ----
    ipc,             \* "idle", "list", "collect", "load", "done"
    iruns,           \* ingests started
    isource,         \* the number of merged parents the source lists
    ipage,           \* page of _get_all_pages
    ilist_requests,  \* list requests made by the running / last ingest
    ipr_data,        \* len(pr_data): the items listed so far
    ipos,            \* the items of pr_data the loop has passed
    ienrichments,    \* _enrich_pull_request calls of the running / last ingest
    icache,          \* the numbers with a cache entry
    iall_prs,        \* all_prs: the numbers of the collected pull requests
    istaging,        \* the parent staging table
    iprod,           \* the parent production table
    \* ---- the per-kind loads of a run in any order ----
    opc,             \* kind -> "stage", "merge" or "done"
    oruns,           \* runs started
    oprs,            \* pull_requests of the running / last run
    oclock,          \* last value read from the clock
    ostamp,          \* kind -> the cached_at its rows got in this run (0: none)
    oprod,           \* production tables
    ostaging,        \* staging tables
    oprod0,          \* production tables when the run started
    ostaging0,       \* staging tables when the run started
    \* ---- overlapping load runs of one kind ----
    wpc,             \* slot -> "append", "merge" or "done"
    wloads,          \* runs started
    wkind,           \* the kind the runs load
    wprs,            \* slot -> pull_requests of its running / last run
    wstamp,          \* slot -> cached_at of its running / last run
    wclock,          \* last value read from the clock
    wprod,           \* production tables
    wstaging,        \* staging tables
    wlast,           \* the slots of the last staging append and the last MERGE
    \* ---- PRCache with its directories ----
    dfiles,          \* <<directory, number>> -> the snapshot in the entry file, or NoFile
    dindex,          \* directory -> its index file
    dlast            \* the last operation and its repository argument

lvars == <<prod, staging, clock, loads, lpc, lkind, lrepo, lprs, lcounts, lret,
           lfailed, merged_in_call, faults, prev_call, prod_before, staged_in_call>>

gvars == <<gpc, gsrc, gper_page, gpage, gitems, greqs, glast, gresult>>

fvars == <<cache, is_public_repo, fpc, fop, fsince, funtil, fleft, fresult, fobs, fexc>>

rvars == <<rate_limit_remaining, rate_limit_reset, rnow, rpc, max_retries, rcalls,
           rsleeps, rlast, rexc, rheaders>>

cvars == <<cfiles, cindex, cres>>

evars == <<epc, etexts, ebatch_size, ei, all_embeddings, ereqs, efailed>>

ivars == <<ipc, iruns, isource, ipage, ilist_requests, ipr_data, ipos, ienrichments,
           icache, iall_prs, istaging, iprod>>

hvars == <<flisted, fpartial, fmeta, fincomplete>>

ovars == <<opc, oruns, oprs, oclock, ostamp, oprod, ostaging, oprod0, ostaging0>>

wvars == <<wpc, wloads, wkind, wprs, wstamp, wclock, wprod, wstaging, wlast>>

dvars == <<dfiles, dindex, dlast>>

vars == <<lvars, gvars, fvars, rvars, cvars, evars, ivars, hvars, ovars, wvars, dvars>>

(***************************************************************************)
(* Bounds of the model.                                                    *)
(***************************************************************************)
MaxLoads == 2        \* load_pull_requests calls per behaviour
MaxFaults == 1       \* injected failures per behaviour
MaxItems == 101      \* items of a static listing
MaxPerPage == 2      \* per_page values 1..MaxPerPage
MaxListing == 2      \* items of a list response of the pulls endpoint
MaxTime == 3         \* the latest instant at which a request may start
MaxCorrupt == 1      \* unreadable cache files at any one time
MaxTexts == 3        \* len(texts) of a generate_batch_embeddings call
MaxBatchSize == 2    \* batch_size values 1..MaxBatchSize
MaxSource == 150       \* pull requests the source of an ingest lists
MaxRuns == 2           \* ingests in a row

(***************************************************************************)
(* Values.                                                                 *)
(***************************************************************************)
None == <<"None">>                 \* Python's None
Repos == {"A", "B"}                \* repository names
Numbers == {1, 2}
Contents == {"", "a"}              \* text of a body / patch: blank or not
KindOrder == <<"prs", "reviews", "files", "labels">>
KindSet == {"prs", "reviews", "files", "labels"}

\* text and text.strip()
Blank(t) == t \in {"", " "}

\* the vector the embedding backend returns for a text
Vec(t) == <<"vec", t>>

\* the embedding written to the row as it is
OrEmptyArrayKeepNull(e) == e

\* embedding or []
OrEmptyArray(e) == IF e = None THEN <<>> ELSE e

BatchSize == 5

BatchOf(i) == ((i - 1) \div BatchSize) + 1

\* the batches of texts for which a backend request is issued
RequestedBatches(texts) ==
    {BatchOf(i) : i \in {j \in DOMAIN texts : ~Blank(texts[j])}}

\* generate_batch_embeddings, given the set of batches whose request fails
generate_batch_embeddings(texts, failed) ==
    [i \in DOMAIN texts |->
        IF Blank(texts[i]) \/ BatchOf(i) \in failed THEN None ELSE Vec(texts[i])]

(***************************************************************************)
(* The records given to load_pull_requests.  A PullRequest carries its     *)
(* number, its body (standing for every plainly copied column) and its     *)
(* reviews, file_stats and labels.                                         *)
(***************************************************************************)
AllKids == {"reviews", "files", "labels"}

MkPR(n, c, shape) ==
    [number |-> n,
     body |-> c,
     reviews |-> IF "reviews" \in shape THEN <<[id |-> n, body |-> c]>> ELSE <<>>,
     file_stats |-> IF "files" \in shape THEN <<[filename |-> "f", patch |-> c]>> ELSE <<>>,
     labels |-> IF "labels" \in shape THEN <<[name |-> "bug", color |-> c]>> ELSE <<>>]

\* The lists given to load_pull_requests: the empty list, one pull request
\* (with or without children, blank or non-blank text), two pull requests,
\* and one pull request listed twice with different column values.
Batches ==
    {<<>>,
     <<MkPR(1, "a", AllKids)>>,
     <<MkPR(1, "", AllKids)>>,
     <<MkPR(1, "a", AllKids), MkPR(2, "a", {})>>,
     <<MkPR(1, "a", {}), MkPR(1, "", {})>>}

(***************************************************************************)
(* Tables as bags of rows.                                                 *)
(***************************************************************************)
\* the rows of a list, each as often as the list holds it
SeqToBag(s) ==
    [r \in {s[i] : i \in DOMAIN s} |-> Cardinality({i \in DOMAIN s : s[i] = r})]

RECURSIVE SumOver(_, _)
SumOver(B, S) ==
    IF S = {} THEN 0
    ELSE LET x == CHOOSE y \in S : TRUE IN B[x] + SumOver(B, S \ {x})

EmptyTables == [k \in KindSet |-> EmptyBag]

(***************************************************************************)
(* Rows.                                                                   *)
(***************************************************************************)
pr_to_bigquery_row(repo_name, pr, embedding, cached_at) ==
    [repo_name |-> repo_name,
     number |-> pr.number,
     body |-> pr.body,
     body_embedding |-> OrEmptyArray(embedding),
     cached_at |-> cached_at]

review_row(repo_name, review, pr_number, embedding, cached_at) ==
    [repo_name |-> repo_name,
     pr_number |-> pr_number,
     review_id |-> review.id,
     body |-> review.body,
     body_embedding |-> OrEmptyArray(embedding),
     cached_at |-> cached_at]

file_row(repo_name, file_stat, pr_number, embedding, cached_at) ==
    [repo_name |-> repo_name,
     pr_number |-> pr_number,
     filename |-> file_stat.filename,
     patch |-> file_stat.patch,
     patch_embedding |-> OrEmptyArray(embedding),
     cached_at |-> cached_at]

label_row(repo_name, label, pr_number) ==
    [repo_name |-> repo_name,
     pr_number |-> pr_number,
     label_name |-> label.name,
     label_color |-> label.color]

\* the children of one kind of all the pull requests, each with its pr.number
RECURSIVE CollectChildren(_, _)
CollectChildren(prs, field) ==
    IF prs = <<>> THEN <<>>
    ELSE [i \in 1..Len(Head(prs)[field]) |->
            [child |-> Head(prs)[field][i], pr_number |-> Head(prs).number]]
         \o CollectChildren(Tail(prs), field)

\* the records of kind k in the call's pull requests
ItemsOf(k, prs) ==
    CASE k = "prs" -> [i \in DOMAIN prs |-> [child |-> prs[i], pr_number |-> prs[i].number]]
      [] k = "reviews" -> CollectChildren(prs, "reviews")
      [] k = "files" -> CollectChildren(prs, "file_stats")
      [] k = "labels" -> CollectChildren(prs, "labels")

\* the texts of kind k that are embedded (labels have none)
TextsOf(k, items) ==
    CASE k = "prs" -> [i \in DOMAIN items |-> items[i].child.body]
      [] k = "reviews" -> [i \in DOMAIN items |-> items[i].child.body]
      [] k = "files" -> [i \in DOMAIN items |-> items[i].child.patch]
      [] k = "labels" -> <<>>

\* the rows of kind k appended to staging
RowsOf(k, repo_name, items, embeddings, cached_at) ==
    CASE k = "prs" ->
            [i \in DOMAIN items |->
                pr_to_bigquery_row(repo_name, items[i].child, embeddings[i], cached_at)]
      [] k = "reviews" ->
            [i \in DOMAIN items |->
                review_row(repo_name, items[i].child, items[i].pr_number, embeddings[i], cached_at)]
      [] k = "files" ->
            [i \in DOMAIN items |->
                file_row(repo_name, items[i].child, items[i].pr_number, embeddings[i], cached_at)]
      [] k = "labels" ->
            [i \in DOMAIN items |-> label_row(repo_name, items[i].child, items[i].pr_number)]

(***************************************************************************)
(* The MERGE statements.                                                   *)
(***************************************************************************)
\* PARTITION BY / ON: the natural key of a row of kind k
RowKey(k, r) ==
    CASE k = "prs" -> <<r.repo_name, r.number>>
      [] k = "reviews" -> <<r.repo_name, r.review_id>>
      [] k = "files" -> <<r.repo_name, r.pr_number, r.filename>>
      [] k = "labels" -> <<r.repo_name, r.pr_number, r.label_name>>

\* FROM staging, without the WHERE clause
StagingRowsOfAnyRepo(k, rows, repo_name) == rows

\* FROM staging WHERE repo_name = '{repo_name}'
StagingRowsOfRepo(k, rows, repo_name) == {r \in rows : r.repo_name = repo_name}

\* RowNumberOne with the order reversed (ORDER BY cached_at ASC)
RowNumberOneAsc(k, rows, key) ==
    LET part == {r \in rows : RowKey(k, r) = key}
    IN  IF k = "labels" THEN part
        ELSE {r \in part : \A q \in part : r.cached_at <= q.cached_at}

\* The rows a partition's ROW_NUMBER() may number 1: ORDER BY cached_at DESC
\* for prs, reviews and files (ties in any order), ORDER BY repo_name for
\* labels (constant within the partition, so any row).
RowNumberOne(k, rows, key) ==
    LET part == {r \in rows : RowKey(k, r) = key}
    IN  IF k = "labels" THEN part
        ELSE {r \in part : \A q \in part : q.cached_at <= r.cached_at}

\* SourceRowSets without the WHERE row_num = 1 filter
SourceRowSetsNoDedup(k, rows) == {rows}

\* the possible results of the USING subquery: one row per key.  A key with
\* a single candidate for row number 1 yields that row; for the others any
\* choice of one candidate per key is a possible result.
SourceRowSets(k, rows) ==
    LET top == {r \in rows : r \in RowNumberOne(k, rows, RowKey(k, r))}
        sure == {r \in top : RowNumberOne(k, rows, RowKey(k, r)) = {r}}
        tied == {RowKey(k, r) : r \in top \ sure}
    IN  {sure \cup {w[key] : key \in tied} :
            w \in {f \in [tied -> top \ sure] :
                       \A key \in tied : f[key] \in RowNumberOne(k, rows, key)}}

\* WHEN MATCHED THEN UPDATE SET ...
UpdateSet(k, t, s) ==
    CASE k = "prs" ->
            [t EXCEPT !.body = s.body, !.body_embedding = s.body_embedding,
                      !.cached_at = s.cached_at]
      [] k = "reviews" ->
            [t EXCEPT !.pr_number = s.pr_number, !.body = s.body,
                      !.body_embedding = s.body_embedding, !.cached_at = s.cached_at]
      [] k = "files" ->
            [t EXCEPT !.patch = s.patch, !.patch_embedding = s.patch_embedding,
                      !.cached_at = s.cached_at]
      [] k = "labels" ->
            [t EXCEPT !.label_color = s.label_color]

MergeRow(k, t, S) ==
    IF \E s \in S : RowKey(k, s) = RowKey(k, t)
    THEN UpdateSet(k, t, CHOOSE s \in S : RowKey(k, s) = RowKey(k, t))
    ELSE t

\* WHEN NOT MATCHED THEN INSERT
NotMatched(k, T, S) == {s \in S : \A t \in DOMAIN T : RowKey(k, t) # RowKey(k, s)}

\* Merge with WHEN NOT MATCHED BY SOURCE THEN DELETE
MergeDeleteUnmatched(k, T, S) ==
    LET kept == {t \in DOMAIN T : \E s \in S : RowKey(k, s) = RowKey(k, t)}
        upd(t) == MergeRow(k, t, S)
        img == {upd(t) : t \in kept}
        updated == [r \in img |-> SumOver(T, {t \in kept : upd(t) = r})]
    IN  updated (+) SetToBag(NotMatched(k, T, S))

\* MERGE T USING S ON key: the production table afterwards
Merge(k, T, S) ==
    LET upd(t) == MergeRow(k, t, S)
        img == {upd(t) : t \in DOMAIN T}
        updated == [r \in img |-> SumOver(T, {t \in DOMAIN T : upd(t) = r})]
    IN  updated (+) SetToBag(NotMatched(k, T, S))

\* get_table_row_counts
get_table_row_counts == [k \in KindSet |-> BagCardinality(prod[k])]

(***************************************************************************)
(* load_pull_requests, step by step: for each kind in KindOrder, the       *)
(* staging append (with its embeddings and its cached_at) and the MERGE.   *)
(* Either may raise; nothing in load_pull_requests catches the exception.  *)
(***************************************************************************)
LoadInit ==
    /\ prod = EmptyTables
    /\ staging = EmptyTables
    /\ clock = 0
    /\ loads = 0
    /\ lpc = "idle"
    /\ lkind = 0
    /\ lrepo = "A"
    /\ lprs = <<>>
    /\ lcounts = <<>>
    /\ lret = {}
    /\ lfailed = 0
    /\ merged_in_call = {}
    /\ staged_in_call = {}
    /\ faults = 0
    /\ prev_call = [repo |-> "A", prs |-> <<>>, ok |-> FALSE]
    /\ prod_before = EmptyTables

\* the dict returned for an empty list (line 160) and for a completed load
\* (lines 183-188)
EmptyReturn == {<<"prs", 0>>, <<"reviews", 0>>, <<"files", 0>>, <<"labels", 0>>}

LoadReturn(counts) ==
    {<<"prs_upserted", counts[1]>>, <<"reviews", counts[2]>>, <<"files", counts[3]>>,
     <<"labels", counts[4]>>}

\* a call begins: load_pull_requests(repo_name, pull_requests)
LoadStart(repo_name, pull_requests) ==
    /\ lpc = "idle"
    /\ loads < MaxLoads
    /\ loads' = loads + 1
    /\ prev_call' = [repo |-> lrepo, prs |-> lprs, ok |-> (loads > 0 /\ lfailed = 0)]
    /\ prod_before' = prod
    /\ lrepo' = repo_name
    /\ lprs' = pull_requests
    /\ lcounts' = <<>>
    /\ lfailed' = 0
    /\ merged_in_call' = {}
    /\ staged_in_call' = {}
    /\ IF pull_requests = <<>>
       THEN /\ lret' = EmptyReturn
            /\ lpc' = "idle"
            /\ lkind' = 0
       ELSE /\ lret' = {}
            /\ lpc' = "stage"
            /\ lkind' = 1
    /\ UNCHANGED <<prod, staging, clock, faults>>

\* the call moves on after kind lkind, which loaded n records
Advance(n) ==
    /\ lcounts' = Append(lcounts, n)
    /\ IF lkind = Len(KindOrder)
       THEN /\ lpc' = "idle"
            /\ lret' = LoadReturn(Append(lcounts, n))
            /\ lkind' = 0
       ELSE /\ lpc' = "stage"
            /\ lret' = lret
            /\ lkind' = lkind + 1

\* Raise with the call's writes to production undone
RaiseRollback ==
    /\ faults < MaxFaults
    /\ faults' = faults + 1
    /\ lpc' = "idle"
    /\ lret' = {}
    /\ lfailed' = lkind
    /\ lkind' = 0
    /\ prod' = prod_before
    /\ UNCHANGED lcounts

\* an exception leaves load_pull_requests: nothing is rolled back
Raise ==
    /\ faults < MaxFaults
    /\ faults' = faults + 1
    /\ lpc' = "idle"
    /\ lret' = {}
    /\ lfailed' = lkind
    /\ lkind' = 0
    /\ UNCHANGED <<prod, lcounts>>

\* SkipKind going on to the MERGE of the kind
SkipKindMerge ==
    /\ lpc = "stage"
    /\ ItemsOf(KindOrder[lkind], lprs) = <<>>
    /\ lpc' = "merge"
    /\ UNCHANGED <<prod, staging, clock, loads, lkind, lrepo, lprs, lcounts, lret, lfailed,
                   merged_in_call, faults, prev_call, prod_before, staged_in_call>>

\* a kind without records returns 0 before any load (lines 503, 609, 713)
SkipKind ==
    /\ lpc = "stage"
    /\ ItemsOf(KindOrder[lkind], lprs) = <<>>
    /\ Advance(0)
    /\ UNCHANGED <<prod, staging, clock, loads, lrepo, lprs, lfailed, merged_in_call,
                   faults, prev_call, prod_before, staged_in_call>>

\* embeddings, cached_at, rows, and the WRITE_APPEND load job to staging
StageKind ==
    /\ lpc = "stage"
    /\ LET k == KindOrder[lkind]
           items == ItemsOf(k, lprs)
           texts == TextsOf(k, items)
           now == IF k = "labels" THEN clock ELSE clock + 1
       IN  /\ items # <<>>
           /\ clock' = now
           /\ \E failed \in SUBSET RequestedBatches(texts) :
                LET embeddings == generate_batch_embeddings(texts, failed)
                    rows == RowsOf(k, lrepo, items, embeddings, now)
                IN  /\ faults + Cardinality(failed) <= MaxFaults
                    /\ \/ /\ staging' = [staging EXCEPT ![k] = @ (+) SeqToBag(rows)]
                          /\ lpc' = "merge"
                          /\ staged_in_call' = staged_in_call \cup {k}
                          /\ faults' = faults + Cardinality(failed)
                          /\ UNCHANGED <<prod, lkind, lcounts, lret, lfailed>>
                       \/ /\ failed = {}
                          /\ staging' = staging
                          /\ UNCHANGED staged_in_call
                          /\ Raise
    /\ UNCHANGED <<loads, lrepo, lprs, merged_in_call, prev_call, prod_before>>

\* the MERGE from staging into production
MergeKind ==
    /\ lpc = "merge"
    /\ LET k == KindOrder[lkind]
           rows == StagingRowsOfRepo(k, DOMAIN staging[k], lrepo)
       IN  \/ \E S \in SourceRowSets(k, rows) :
                /\ prod' = [prod EXCEPT ![k] = Merge(k, @, S)]
                /\ merged_in_call' = merged_in_call \cup {k}
                /\ Advance(Len(ItemsOf(k, lprs)))
                /\ UNCHANGED <<lfailed, faults>>
           \/ /\ Raise
              /\ UNCHANGED merged_in_call
    /\ UNCHANGED <<staging, clock, loads, lrepo, lprs, prev_call, prod_before,
                   staged_in_call>>

LoadNext ==
    \/ \E r \in Repos, b \in Batches : LoadStart(r, b)
    \/ SkipKind
    \/ StageKind
    \/ MergeKind

(***************************************************************************)
(* Properties of the loader.                                               *)
(***************************************************************************)
\* the last two calls returned normally and had the same arguments
SameCallTwice ==
    /\ lpc = "idle"
    /\ loads >= 2
    /\ lfailed = 0
    /\ prev_call.ok
    /\ prev_call.repo = lrepo
    /\ prev_call.prs = lprs

\* C1: after the second of two successive load_pull_requests calls with the
\* same repository and the same list of records, each of the four production
\* tables holds the same rows, with the same column values, as after the first.
C1_SecondLoadSameTables ==
    SameCallTwice => \A k \in KindSet : prod[k] = prod_before[k]

\* a table without its cached_at and embedding columns
Content(k, T) ==
    CASE k = "prs" -> {[r EXCEPT !.cached_at = 0, !.body_embedding = <<>>] : r \in DOMAIN T}
      [] k = "reviews" -> {[r EXCEPT !.cached_at = 0, !.body_embedding = <<>>] : r \in DOMAIN T}
      [] k = "files" -> {[r EXCEPT !.cached_at = 0, !.patch_embedding = <<>>] : r \in DOMAIN T}
      [] k = "labels" -> DOMAIN T

\* C1 read up to the cached_at and embedding columns: also violated, by the
\* label table (RowNumberOne picks any staged row of a label key).
C1_SecondLoadSameContent ==
    SameCallTwice => \A k \in KindSet : Content(k, prod[k]) = Content(k, prod_before[k])

\* at most one row per natural key in table T of kind k
UniqueKeys(k, T) ==
    /\ \A r \in DOMAIN T : T[r] = 1
    /\ \A r1, r2 \in DOMAIN T : RowKey(k, r1) = RowKey(k, r2) => r1 = r2

\* C2: after any sequence of load_pull_requests calls, failed ones included,
\* each production table holds at most one row per natural key.
C2_UniqueNaturalKeys == \A k \in KindSet : UniqueKeys(k, prod[k])

\* C2's case: after a failed call and a later one, staging holds several rows
\* of a key that production holds once.
C2_Witness ==
    /\ lpc = "idle"
    /\ loads >= 2
    /\ faults >= 1
    /\ \E k \in KindSet : \E r1, r2 \in DOMAIN staging[k] :
          /\ r1 # r2
          /\ RowKey(k, r1) = RowKey(k, r2)
          /\ \E t \in DOMAIN prod[k] : RowKey(k, t) = RowKey(k, r1)

\* the staged rows of the call's repository with a given key
Partition(k, key) ==
    {r \in StagingRowsOfRepo(k, DOMAIN staging[k], lrepo) : RowKey(k, r) = key}

DistinctCachedAt(rows) == \A r1, r2 \in rows : r1 # r2 => r1.cached_at # r2.cached_at

TimedKinds == {"prs", "reviews", "files"}

\* C3: once the MERGE of a parent, review or file kind has completed, for each
\* key whose staged rows of the repository differ in cached_at the production
\* table holds exactly the staged row with the greatest cached_at.
C3_MaxCachedAtWins ==
    \A k \in TimedKinds \cap merged_in_call :
        \A key \in {RowKey(k, r) : r \in StagingRowsOfRepo(k, DOMAIN staging[k], lrepo)} :
            DistinctCachedAt(Partition(k, key)) =>
                \E s \in Partition(k, key) :
                    /\ \A q \in Partition(k, key) : q.cached_at <= s.cached_at
                    /\ {t \in DOMAIN prod[k] : RowKey(k, t) = key} = {s}

\* C3's case: a merged key with two staged rows of different cached_at and
\* different column values.
C3_Witness ==
    \E k \in TimedKinds \cap merged_in_call :
        \E r1, r2 \in StagingRowsOfRepo(k, DOMAIN staging[k], lrepo) :
            /\ RowKey(k, r1) = RowKey(k, r2)
            /\ DistinctCachedAt(Partition(k, RowKey(k, r1)))
            /\ r1.cached_at < r2.cached_at
            /\ [r1 EXCEPT !.cached_at = 0] # [r2 EXCEPT !.cached_at = 0]
            /\ r2 \in DOMAIN prod[k]

\* a step in which the running call raises
RaiseStep == lpc # "idle" /\ lpc' = "idle" /\ lfailed' > 0

\* C4: when a kind's staging append or MERGE raises, the tables of the kinds
\* merged earlier in the call are left as their MERGE wrote them, and
\* get_table_row_counts counts their rows.
C4_CommittedKindsRemain ==
    [][RaiseStep =>
        \A k \in merged_in_call :
            /\ prod'[k] = prod[k]
            /\ get_table_row_counts'[k] = BagCardinality(prod[k])]_vars

\* C4's case: a call raised after the MERGE of an earlier kind had changed
\* its production table.
C4_Witness ==
    /\ lpc = "idle"
    /\ lfailed > 1
    /\ merged_in_call # {}
    /\ \A k \in merged_in_call :
          /\ prod[k] # prod_before[k]
          /\ get_table_row_counts[k] > 0

\* C5: when one kind's staging append or MERGE fails, every other kind of the
\* call that has records is still staged and merged.
C5_OtherKindsStillLoaded ==
    (lpc = "idle" /\ lfailed > 0) =>
        \A j \in DOMAIN KindOrder :
            (j # lfailed /\ ItemsOf(KindOrder[j], lprs) # <<>>) =>
                KindOrder[j] \in merged_in_call

\* the text column and the embedding column of a staged row
TextOf(k, r) == IF k = "files" THEN r.patch ELSE r.body

EmbeddingOf(k, r) == IF k = "files" THEN r.patch_embedding ELSE r.body_embedding

\* C21: every parent, review and file row appended to staging whose body or
\* patch is blank carries an empty vector, and no staged row carries a null
\* embedding: a null slot (blank text or failed batch) is stored as the
\* empty array, any other slot as the vector of the row's text.
C21_BlankOrNullIsEmptyArray ==
    \A k \in TimedKinds : \A r \in DOMAIN staging[k] :
        /\ EmbeddingOf(k, r) # None
        /\ Blank(TextOf(k, r)) => EmbeddingOf(k, r) = <<>>
        /\ EmbeddingOf(k, r) \in {<<>>, Vec(TextOf(k, r))}

\* C21's case: staging holds a row with blank text and a row whose batch
\* failed, both with the empty array.
C21_Witness ==
    \E k \in TimedKinds : \E r1, r2 \in DOMAIN staging[k] :
        /\ Blank(TextOf(k, r1))
        /\ EmbeddingOf(k, r1) = <<>>
        /\ ~Blank(TextOf(k, r2))
        /\ EmbeddingOf(k, r2) = <<>>

\* the last load_pull_requests call has returned
LoadReturned == lpc = "idle" /\ loads > 0 /\ lfailed = 0

\* C27: for every input, empty or not, the dict load_pull_requests returns
\* has the keys 'prs', 'reviews', 'files' and 'labels', each with the number
\* of records of that kind that were loaded.
C27_ReturnedKeys ==
    LoadReturned =>
        lret = {<<k, Len(ItemsOf(k, lprs))>> : k \in KindSet}

\* the rows of kind k this step appends to staging
NewlyStaged(k) == {r \in DOMAIN staging'[k] : staging'[k] # staging[k] /\ r.cached_at = clock'}

\* C28: load_pull_requests requests no embedding for a record that is
\* already in its production table: a row staged for a key that production
\* holds carries no newly computed vector.
C28_NoEmbeddingForExisting ==
    [][\A k \in TimedKinds : \A r \in NewlyStaged(k) :
            (\E t \in DOMAIN prod[k] : RowKey(k, t) = RowKey(k, r)) =>
                EmbeddingOf(k, r) = <<>>]_vars

\* C29: when staged rows of one key tie (equal cached_at, or labels, which
\* have none) and differ in their columns, the MERGE result is a function of
\* the staging contents: every possible result of the USING subquery leads
\* to the same production table.
C29_TieBreakDeterministic ==
    lpc = "merge" =>
        LET k == KindOrder[lkind]
            rows == StagingRowsOfRepo(k, DOMAIN staging[k], lrepo)
        IN  \A S1, S2 \in SourceRowSets(k, rows) :
                Merge(k, prod[k], S1) = Merge(k, prod[k], S2)

\* the rows of kind k of the call's records, without cached_at and embedding
BatchContent(k) ==
    LET items == ItemsOf(k, lprs)
        rows == RowsOf(k, lrepo, items, [i \in DOMAIN items |-> None], 0)
    IN  {rows[i] : i \in DOMAIN rows}

\* no two records of kind k of the call have the same natural key
UniqueBatchKeys(k) ==
    \A r1, r2 \in BatchContent(k) : RowKey(k, r1) = RowKey(k, r2) => r1 = r2

\* C30: after a load that returned, of a batch with unique natural keys, the
\* production row of every key of the batch, of every kind, has the column
\* values of the batch's record, whatever older rows staging holds.
C30_BatchValuesWin ==
    (LoadReturned /\ \A k \in KindSet : UniqueBatchKeys(k)) =>
        \A k \in KindSet : BatchContent(k) \subseteq Content(k, prod[k])

\* C33: in each call the MERGE of a kind runs only after the staging append
\* of that kind has completed in the call; a kind whose append raised, or
\* that has no records, is not merged in the call.
C33_StagedBeforeMerged ==
    [][\A k \in KindSet :
            (k \in merged_in_call' \ merged_in_call \/ prod'[k] # prod[k]) =>
                /\ k \in staged_in_call
                /\ ItemsOf(k, lprs) # <<>>]_vars

\* C33's case: the parent kind was staged and merged, the review kind has
\* records but its staging append raised, and it was not merged.
C33_Witness ==
    /\ lpc = "idle"
    /\ lfailed = 2
    /\ merged_in_call = {"prs"}
    /\ staged_in_call = {"prs"}
    /\ ItemsOf("reviews", lprs) # <<>>
    /\ prod["reviews"] = prod_before["reviews"]

\* the natural keys present in a table
KeysIn(k, T) == {RowKey(k, t) : t \in DOMAIN T}

\* C38: no step of load_pull_requests removes a natural key from a
\* production table.
C38_ProductionKeysOnlyGrow ==
    [][\A k \in KindSet : KeysIn(k, prod[k]) \subseteq KeysIn(k, prod'[k])]_vars

\* C38's case: the pull request whose review, file and label were loaded
\* earlier has been loaded again without children, and the rows of the
\* children are still in production.
C38_Witness ==
    /\ LoadReturned
    /\ loads = 2
    /\ lprs # <<>>
    /\ \A k \in AllKids : ItemsOf(k, lprs) = <<>>
    /\ \A k \in AllKids : \E t \in DOMAIN prod[k] :
           t.repo_name = lrepo /\ t.pr_number = lprs[1].number

\* the rows of the tables T and U of kind k that belong to another
\* repository than repo_name
RowsOfOtherRepos(k, T, U, repo_name) ==
    {t \in DOMAIN T[k] \cup DOMAIN U[k] : t.repo_name # repo_name}

\* C39: no step of a load_pull_requests call for a repository changes a
\* production row or a staging row of another repository.
C39_OtherReposUntouched ==
    [][\A k \in KindSet :
            /\ \A t \in RowsOfOtherRepos(k, prod, prod', lrepo') :
                   CopiesIn(t, prod'[k]) = CopiesIn(t, prod[k])
            /\ \A t \in RowsOfOtherRepos(k, staging, staging', lrepo') :
                   CopiesIn(t, staging'[k]) = CopiesIn(t, staging[k])]_vars

\* C39's case: a load for one repository has returned after a load for the
\* other, and every production and staging table holds rows of both.
C39_Witness ==
    /\ LoadReturned
    /\ loads = 2
    /\ prev_call.repo # lrepo
    /\ \A k \in KindSet : \A repo \in Repos :
           /\ \E t \in DOMAIN prod[k] : t.repo_name = repo
           /\ \E t \in DOMAIN staging[k] : t.repo_name = repo

(***************************************************************************)
(* _get_all_pages: one listing, page by page.  Items are counted, not      *)
(* named: a response is the length of its list.                            *)
(***************************************************************************)
MaxPages == 100

SingleItem == -1      \* a response that is not a list (and is truthy)
Raised == -2          \* _make_request raised

PagesInit ==
    /\ gpc = "idle"
    /\ gsrc = [static |-> TRUE, total |-> 0]
    /\ gper_page = 1
    /\ gpage = 1
    /\ gitems = 0
    /\ greqs = 0
    /\ glast = 0
    /\ gresult = 0

Sources ==
    {[static |-> TRUE, total |-> n] : n \in 0..MaxItems} \cup {[static |-> FALSE, total |-> 0]}

Min(a, b) == IF a <= b THEN a ELSE b

\* what page `page` of a static listing of `total` items holds
StaticPage(total, per_page, page) ==
    IF total <= (page - 1) * per_page THEN 0 ELSE Min(per_page, total - (page - 1) * per_page)

\* the responses the source may give to the request for page gpage
Responses ==
    IF gsrc.static
    THEN {StaticPage(gsrc.total, gper_page, gpage), Raised}
    ELSE (0..gper_page) \cup {SingleItem, Raised}

\* len(data) < int(current_params['per_page'])
LastPageLe(n, per_page) == n <= per_page

LastPage(n, per_page) == n < per_page

\* page > 100
CeilingReachedLate(page) == page > MaxPages + 1

CeilingReached(page) == page > MaxPages

GetAllPagesStart(src, per_page) ==
    /\ gpc # "request"
    /\ gpc' = "request"
    /\ gsrc' = src
    /\ gper_page' = per_page
    /\ gpage' = 1
    /\ gitems' = 0
    /\ greqs' = 0
    /\ glast' = 0
    /\ gresult' = 0

\* one pass of the while loop: the request for page gpage and its response
PageRequest ==
    /\ gpc = "request"
    /\ greqs' = greqs + 1
    /\ \E n \in Responses :
        /\ glast' = n
        /\ IF n = Raised
           THEN /\ gpc' = "raised"
                /\ UNCHANGED <<gpage, gitems, gresult>>
           ELSE IF n = SingleItem
           THEN /\ gpc' = "returned"
                /\ gresult' = 1
                /\ UNCHANGED <<gpage, gitems>>
           ELSE /\ gitems' = gitems + n
                /\ IF LastPage(n, gper_page)
                   THEN /\ gpc' = "returned"
                        /\ gresult' = gitems + n
                        /\ gpage' = gpage
                   ELSE /\ gpage' = gpage + 1
                        /\ IF CeilingReached(gpage + 1)
                           THEN /\ gpc' = "returned"
                                /\ gresult' = gitems + n
                           ELSE /\ gpc' = "request"
                                /\ gresult' = gresult
    /\ UNCHANGED <<gsrc, gper_page>>

PagesNext ==
    \/ \E src \in Sources, per_page \in 1..MaxPerPage : GetAllPagesStart(src, per_page)
    \/ PageRequest

(***************************************************************************)
(* GitHubCollector.get_merged_prs / get_open_prs over PRCache, for one     *)
(* repository.  The list response pr_data is fixed before the loop starts  *)
(* and nothing in the loop changes it, so each item is drawn when the loop *)
(* reaches it.  A child listing (files, reviews) is one fetch whose        *)
(* outcome is its content or a GitHubAPIError; its page requests are the   *)
(* subject of _get_all_pages above.  The file system works: store_pr       *)
(* writes the entry and get_pr reads back what was written.                *)
(***************************************************************************)
Times == {1, 2}                    \* instants of merged_at, since and until
NoTime == 0                        \* merged_at: None
Titles == {"", "a"}                \* parent-level fields of a list item
ChildData == {0, 1}                \* a child listing's content; 0: []
Failed == -1                       \* the fetch raised GitHubAPIError
Skipped == -2                      \* the fetch was not attempted
RateLimited == -3                  \* the fetch raised RateLimitError
SkippedRateLimited == -4           \* not attempted: the metadata request raised RateLimitError
Terminal == {"merged", "closed"}

\* the items of GET /pulls?state=closed and GET /pulls?state=open
ClosedItems ==
    [number : Numbers, title : Titles, state : {"closed"}, merged_at : Times \cup {NoTime}]

OpenItems ==
    [number : Numbers, title : Titles, state : {"open"}, merged_at : {NoTime}]

\* PullRequest.from_github_data
from_github_data(data) ==
    [number |-> data.number,
     title |-> data.title,
     state |-> IF data.merged_at # NoTime THEN "merged"
               ELSE IF data.state = "closed" THEN "closed"
               ELSE "open",
     merged_at |-> data.merged_at,
     file_stats |-> 0,
     reviews |-> 0]

\* PRCache.has_pr; it is also the truth of what get_pr returns
has_pr(pr_number) == pr_number \in DOMAIN cache

\* PRCache.get_pr, called on a number that has_pr
get_pr(pr_number) == cache[pr_number]

\* PRCache.store_pr: the file of pr.number is (re)written
store_pr(pr) ==
    [n \in DOMAIN cache \cup {pr.number} |-> IF n = pr.number THEN pr ELSE cache[n]]

\* The repository is public.  A private one differs in the timeout of its
\* requests only, which is not followed here.
Visibilities == {"public"}

\* is_public_repository: what self._is_public_repo may be afterwards
ResolveOutcomes(vis) ==
    IF vis = "None" THEN {"None"} \cup Visibilities ELSE {vis}

\* the results of the files fetch when is_public_repository left `vis`
FilesOutcomes(vis) ==
    IF vis = "None" THEN {Skipped, SkippedRateLimited} ELSE ChildData \cup {Failed, RateLimited}

ReviewsOutcomes == ChildData \cup {Failed, RateLimited}

\* _enrich_pull_request with the outcomes fo (files) and ro (reviews)
enrich_pull_request(pr, fo, ro) ==
    [pr EXCEPT !.file_stats = IF fo \in ChildData THEN fo ELSE @,
               !.reviews = IF ro \in ChildData THEN ro ELSE @]

NoObs ==
    [number |-> 0, consulted |-> FALSE, enrich |-> 0, files |-> 0, reviews |-> 0, stored |-> 0,
     files_failed |-> FALSE, reviews_failed |-> FALSE, rate_limited |-> FALSE]

FetchInit ==
    /\ cache = [n \in {} |-> 0]
    /\ is_public_repo = "None"
    /\ fpc = "idle"
    /\ fop = "merged"
    /\ fsince = 1
    /\ funtil = 1
    /\ fleft = 0
    /\ fresult = <<>>
    /\ fobs = NoObs
    /\ fexc = "None"

\* the list request of an operation: it raises, or pr_data has k items
ListRequest(k, raises) ==
    /\ is_public_repo' \in ResolveOutcomes(is_public_repo)
    /\ fresult' = <<>>
    /\ fobs' = NoObs
    /\ IF raises
       THEN fpc' = "raised" /\ fleft' = 0 /\ fexc' \in {"GitHubAPIError", "RateLimitError"}
       ELSE fpc' = (IF k = 0 THEN "returned" ELSE "loop") /\ fleft' = k /\ fexc' = "None"
    /\ UNCHANGED cache

GetMergedStart(since, until) ==
    /\ fpc # "loop"
    /\ since <= until
    /\ fop' = "merged"
    /\ fsince' = since
    /\ funtil' = until
    /\ \E k \in 0..MaxListing, raises \in BOOLEAN : ListRequest(k, raises)

GetOpenStart(limit) ==
    /\ fpc # "loop"
    /\ fop' = "open"
    /\ UNCHANGED <<fsince, funtil>>
    /\ \E k \in 0..MaxListing, raises \in BOOLEAN : ListRequest(Min(k, limit), raises)

\* the end of a pass of the loop; after the last item the operation returns
NextItem ==
    /\ fleft' = fleft - 1
    /\ fpc' = IF fleft = 1 THEN "returned" ELSE "loop"
    /\ UNCHANGED <<fop, fsince, funtil, fexc>>

\* pr = self._enrich_pull_request(pr); self.cache.store_pr(self.repository, pr)
EnrichAndStore(pr) ==
    \E v1 \in ResolveOutcomes(is_public_repo) :
    \E fo \in FilesOutcomes(v1) :
    \E v2 \in ResolveOutcomes(v1) :
    \E ro \in ReviewsOutcomes :
        LET enriched == enrich_pull_request(pr, fo, ro)
        IN  /\ is_public_repo' = v2
            /\ cache' = store_pr(enriched)
            /\ fresult' = Append(fresult, enriched)
            /\ fobs' = [number |-> pr.number, consulted |-> TRUE, enrich |-> 1,
                        files |-> IF fo \in {Skipped, SkippedRateLimited} THEN 0 ELSE 1,
                        reviews |-> 1,
                        stored |-> 1,
                        files_failed |-> fo \notin ChildData,
                        reviews_failed |-> ro \notin ChildData,
                        rate_limited |-> fo \in {RateLimited, SkippedRateLimited}
                                            \/ ro = RateLimited]

\* if cached_pr: (get_merged_prs)
MergedUsesCacheNever(pr_number) == FALSE

MergedUsesCache(pr_number) == has_pr(pr_number)

\* if cached_pr and cached_pr.state.value == 'open': (get_open_prs)
OpenReenrichesCached(pr_number) ==
    has_pr(pr_number) /\ get_pr(pr_number).state = "open"

\* one pass of the loop of get_merged_prs
MergedItem(pr_item) ==
    /\ fpc = "loop"
    /\ fop = "merged"
    /\ NextItem
    /\ IF pr_item.merged_at = NoTime \/ pr_item.merged_at < fsince \/ pr_item.merged_at > funtil
       THEN /\ fobs' = [NoObs EXCEPT !.number = pr_item.number]
            /\ UNCHANGED <<cache, is_public_repo, fresult>>
       ELSE IF MergedUsesCache(pr_item.number)
       THEN /\ fresult' = Append(fresult, get_pr(pr_item.number))
            /\ fobs' = [NoObs EXCEPT !.number = pr_item.number, !.consulted = TRUE]
            /\ UNCHANGED <<cache, is_public_repo>>
       ELSE EnrichAndStore(from_github_data(pr_item))

\* one pass of the loop of get_open_prs
OpenItem(pr_item) ==
    /\ fpc = "loop"
    /\ fop = "open"
    /\ NextItem
    /\ IF OpenReenrichesCached(pr_item.number)
       THEN EnrichAndStore(get_pr(pr_item.number))
       ELSE EnrichAndStore(from_github_data(pr_item))

FetchNext ==
    \/ \E since \in Times, until \in Times : GetMergedStart(since, until)
    \/ \E limit \in 1..MaxListing : GetOpenStart(limit)
    \/ \E pr_item \in ClosedItems : MergedItem(pr_item)
    \/ \E pr_item \in OpenItems : OpenItem(pr_item)

(***************************************************************************)
(* GitHubCollector._make_request: the rate-limit gate and the retry loop.  *)
(* Time is counted in seconds.  The timeout computation at the top may     *)
(* call is_public_repository, whose metadata request is a complete         *)
(* _make_request of its own that ends (its exception swallowed) before the *)
(* gate of this call is reached: it shows here as the call before.         *)
(***************************************************************************)
DefaultRemaining == 5000           \* rate_limit_remaining when no header says
DefaultMaxRetries == 3

\* X-RateLimit-Remaining and X-RateLimit-Reset of a response
Remainings == {0, 1, DefaultRemaining}

Resets == 0..(MaxTime + 2)

NoHeaders == <<-1, -1>>

\* what one urlopen call can meet
Transient == {"server_5xx", "network"}

Outcomes ==
    {"ok", "bad_json", "rate_limit_403", "forbidden_403", "not_found_404", "client_4xx"}
        \cup Transient

\* the except clauses of the retry loop: what the pass does with an outcome
ClassifyNoRateLimit(outcome) ==
    CASE outcome = "ok" -> "return"
      [] outcome \in {"rate_limit_403", "forbidden_403", "not_found_404"} -> "GitHubAPIError"
      [] OTHER -> "retry"

ClassifyRetryNotFound(outcome) ==
    CASE outcome = "ok" -> "return"
      [] outcome = "rate_limit_403" -> "RateLimitError"
      [] outcome = "forbidden_403" -> "GitHubAPIError"
      [] OTHER -> "retry"

Classify(outcome) ==
    CASE outcome = "ok" -> "return"
      [] outcome = "rate_limit_403" -> "RateLimitError"
      [] outcome \in {"forbidden_403", "not_found_404"} -> "GitHubAPIError"
      [] OTHER -> "retry"

\* self.rate_limit_remaining <= 1 and datetime.now() < self.rate_limit_reset
RateLimitReached(remaining, reset, t) == remaining <= 1 /\ t < reset

\* attempt < max_retries
RetryAgainOnceMore(attempt, retries) == attempt <= retries

RetryAgain(attempt, retries) == attempt < retries

\* wait_time = (2 ** attempt) + 1
wait_time(attempt) == (2 ^ attempt) + 1

RequestInit ==
    /\ rate_limit_remaining = DefaultRemaining
    /\ rate_limit_reset = 0
    /\ rnow = 0
    /\ rpc = "idle"
    /\ max_retries = DefaultMaxRetries
    /\ rcalls = 0
    /\ rsleeps = 0
    /\ rlast = "none"
    /\ rexc = "None"
    /\ rheaders = NoHeaders

\* time passes
Tick ==
    /\ rnow < MaxTime
    /\ rnow' = rnow + 1
    /\ UNCHANGED <<rate_limit_remaining, rate_limit_reset, rpc, max_retries, rcalls,
                   rsleeps, rlast, rexc, rheaders>>

\* the call up to the retry loop: time.sleep(sleep_time + 1) when the limit
\* is reached
MakeRequestStart(retries) ==
    /\ rpc # "attempt"
    /\ rnow <= MaxTime
    /\ rpc' = "attempt"
    /\ max_retries' = retries
    /\ rcalls' = 0
    /\ rsleeps' = 0
    /\ rlast' = "none"
    /\ rexc' = "None"
    /\ rnow' = IF RateLimitReached(rate_limit_remaining, rate_limit_reset, rnow)
              THEN rate_limit_reset + 1
              ELSE rnow
    /\ UNCHANGED <<rate_limit_remaining, rate_limit_reset, rheaders>>

\* one pass of the retry loop: urlopen, and what follows its outcome
Attempt(outcome, remaining, reset) ==
    /\ rpc = "attempt"
    /\ rcalls' = rcalls + 1
    /\ rlast' = outcome
    /\ rheaders' = IF outcome = "network" THEN NoHeaders ELSE <<remaining, reset>>
    /\ IF outcome \in {"ok", "bad_json"}
       THEN rate_limit_remaining' = remaining /\ rate_limit_reset' = reset
       ELSE UNCHANGED <<rate_limit_remaining, rate_limit_reset>>
    /\ LET what == Classify(outcome)
           attempt == rcalls
       IN  IF what = "return"
           THEN rpc' = "returned" /\ UNCHANGED <<rexc, rsleeps, rnow>>
           ELSE IF what = "retry" /\ RetryAgain(attempt, max_retries)
           THEN /\ rpc' = "attempt"
                /\ rsleeps' = rsleeps + 1
                /\ rnow' = rnow + wait_time(attempt)
                /\ UNCHANGED rexc
           ELSE /\ rpc' = "raised"
                /\ rexc' = (IF what = "retry" THEN "GitHubAPIError" ELSE what)
                /\ UNCHANGED <<rsleeps, rnow>>
    /\ UNCHANGED max_retries

RequestNext ==
    \/ Tick
    \/ \E retries \in 0..DefaultMaxRetries : MakeRequestStart(retries)
    \/ \E outcome \in Outcomes, remaining \in Remainings, reset \in Resets :
            Attempt(outcome, remaining, reset)

(***************************************************************************)
(* PRCache at the level of its files: one entry file per (repository,      *)
(* number) and one index file per repository.  A file holds what the cache *)
(* wrote, or something else (a truncated write, an edit, another           *)
(* program): the classes below are told apart by the exception that        *)
(* reading them raises.                                                    *)
(***************************************************************************)
\* valid: what _pr_to_dict wrote
\* invalid_json: json.load raises JSONDecodeError
\* missing_field: _dict_to_pr raises KeyError (data["state"] is missing)
\* bad_value: _dict_to_pr raises ValueError (PRState("x"), fromisoformat("x"))
\* wrong_type: _dict_to_pr raises TypeError (the document is a list,
\*             data["author"] is a string, data["created_at"] is a number)
CorruptEntries == {"invalid_json", "missing_field", "bad_value", "wrong_type"}

\* invalid_json: json.load raises JSONDecodeError
\* wrong_type: valid JSON that is not a dict (index.get, index["cached_prs"]
\*             raise AttributeError / TypeError)
CorruptIndexes == {"invalid_json", "wrong_type"}

\* an index file that holds {"cached_prs": prs, ...}
IndexOf(prs) == [kind |-> "list", prs |-> prs]

NoIndex == [kind |-> "absent", prs |-> {}]

\* the exception reading an entry raises inside get_pr
EntryException(content) ==
    CASE content = "invalid_json" -> "JSONDecodeError"
      [] content = "missing_field" -> "KeyError"
      [] content = "bad_value" -> "ValueError"
      [] content = "wrong_type" -> "TypeError"
      [] OTHER -> "None"

\* except (json.JSONDecodeError, KeyError, ValueError) in get_pr
GetPrCatches == {"JSONDecodeError", "KeyError", "ValueError"}

CorruptCount ==
    Cardinality({f \in DOMAIN cfiles : cfiles[f] \in CorruptEntries})
        + Cardinality({r \in Repos : cindex[r].kind \in CorruptIndexes})

CacheResult(op, repo, number, exc, found, numbers) ==
    [op |-> op, repo |-> repo, number |-> number, exc |-> exc, found |-> found,
     numbers |-> numbers]

CacheInit ==
    /\ cfiles = [f \in Repos \X Numbers |-> "absent"]
    /\ cindex = [r \in Repos |-> NoIndex]
    /\ cres = CacheResult("none", "A", 0, "None", FALSE, {})

\* PRCache._update_index; raised: it raises, which store_pr catches
update_index(index, pr_number) ==
    CASE index.kind = "absent" -> IndexOf({pr_number})
      [] index.kind = "invalid_json" -> IndexOf({pr_number})
      [] index.kind = "wrong_type" -> index
      [] OTHER -> IndexOf(index.prs \cup {pr_number})

\* PRCache.store_pr
StorePr(repo, pr_number) ==
    /\ cfiles' = [cfiles EXCEPT ![<<repo, pr_number>>] = "valid"]
    /\ cindex' = [cindex EXCEPT ![repo] = update_index(@, pr_number)]
    /\ cres' = CacheResult("store_pr", repo, pr_number, "None", FALSE, {})

\* PRCache.has_pr
HasPr(repo, pr_number) ==
    /\ cres' = CacheResult("has_pr", repo, pr_number, "None",
                           cfiles[<<repo, pr_number>>] # "absent", {})
    /\ UNCHANGED <<cfiles, cindex>>

\* PRCache.get_pr
GetPr(repo, pr_number) ==
    /\ LET content == cfiles[<<repo, pr_number>>]
           exc == EntryException(content)
       IN  cres' = CacheResult("get_pr", repo, pr_number,
                               IF exc \in GetPrCatches THEN "None" ELSE exc,
                               content = "valid", {})
    /\ UNCHANGED <<cfiles, cindex>>

\* PRCache.get_cached_pr_numbers
GetCachedPrNumbers(repo) ==
    /\ LET index == cindex[repo]
       IN  cres' = CacheResult("get_cached_pr_numbers", repo, 0,
                               IF index.kind = "wrong_type" THEN "AttributeError" ELSE "None",
                               FALSE,
                               IF index.kind = "list" THEN index.prs ELSE {})
    /\ UNCHANGED <<cfiles, cindex>>

\* PRCache.cleanup_old_cache; old: the entry files older than the cutoff
CleanupOldCache(repo, old) ==
    /\ cfiles' = [f \in DOMAIN cfiles |->
                    IF f[1] = repo /\ f[2] \in old THEN "absent" ELSE cfiles[f]]
    /\ cres' = CacheResult("cleanup_old_cache", repo, 0, "None", FALSE, {})
    /\ UNCHANGED cindex

\* something other than the cache rewrites an entry file or an index file
CorruptEntry(repo, pr_number, content) ==
    /\ cfiles[<<repo, pr_number>>] = "valid"
    /\ CorruptCount < MaxCorrupt
    /\ cfiles' = [cfiles EXCEPT ![<<repo, pr_number>>] = content]
    /\ UNCHANGED <<cindex, cres>>

CorruptIndex(repo, content) ==
    /\ cindex[repo].kind = "list"
    /\ CorruptCount < MaxCorrupt
    /\ cindex' = [cindex EXCEPT ![repo] = [kind |-> content, prs |-> {}]]
    /\ UNCHANGED <<cfiles, cres>>

CacheNext ==
    \/ \E repo \in Repos, pr_number \in Numbers : StorePr(repo, pr_number)
    \/ \E repo \in Repos, pr_number \in Numbers : HasPr(repo, pr_number)
    \/ \E repo \in Repos, pr_number \in Numbers : GetPr(repo, pr_number)
    \/ \E repo \in Repos : GetCachedPrNumbers(repo)
    \/ \E repo \in Repos, old \in SUBSET Numbers : CleanupOldCache(repo, old)
    \/ \E repo \in Repos, pr_number \in Numbers, content \in CorruptEntries :
            CorruptEntry(repo, pr_number, content)
    \/ \E repo \in Repos, content \in CorruptIndexes : CorruptIndex(repo, content)

(***************************************************************************)
(* EmbeddingGenerator.generate_batch_embeddings, batch by batch.           *)
(***************************************************************************)
Texts == {"", " ", "a", "b"}

RECURSIVE SeqsUpTo(_, _)
\* the sequences over S of length at most n
SeqsUpTo(S, n) ==
    IF n = 0 THEN {<<>>}
    ELSE LET shorter == SeqsUpTo(S, n - 1)
         IN  shorter \cup {Append(s, x) : s \in {t \in shorter : Len(t) = n - 1}, x \in S}

\* if text and text.strip()
IsValidNoStrip(text) == text # ""

IsValid(text) == ~Blank(text)

RECURSIVE ValidIndices(_, _)
\* valid_indices: the positions j..Len(batch) of batch that hold a valid text
ValidIndices(batch, j) ==
    IF j > Len(batch) THEN <<>>
    ELSE IF IsValid(batch[j]) THEN <<j>> \o ValidIndices(batch, j + 1)
    ELSE ValidIndices(batch, j + 1)

\* response.embeddings for contents
EmbedContent(contents) == [k \in DOMAIN contents |-> Vec(contents[k])]

\* batch_results after the zip loop, written by position in the response
BatchResultsPacked(batch, valid_indices, embeddings) ==
    [j \in 1..Len(batch) |-> IF j <= Len(embeddings) THEN embeddings[j] ELSE None]

\* batch_results after the zip loop
BatchResults(batch, valid_indices, embeddings) ==
    [j \in 1..Len(batch) |->
        IF \E k \in DOMAIN valid_indices : k <= Len(embeddings) /\ valid_indices[k] = j
        THEN embeddings[CHOOSE k \in DOMAIN valid_indices : valid_indices[k] = j]
        ELSE None]

\* [None] * len(batch), in the except clause
FailedBatchResultsDropped(batch) == <<>>

FailedBatchResults(batch) == [j \in 1..Len(batch) |-> None]

\* [None] * len(batch), when the batch has no valid text
BlankBatchResults(batch) == [j \in 1..Len(batch) |-> None]

EmbedInit ==
    /\ epc = "idle"
    /\ etexts = <<>>
    /\ ebatch_size = 1
    /\ ei = 0
    /\ all_embeddings = <<>>
    /\ ereqs = <<>>
    /\ efailed = {}

EmbedStart(texts, batch_size) ==
    /\ epc # "loop"
    /\ epc' = IF Len(texts) = 0 THEN "returned" ELSE "loop"
    /\ etexts' = texts
    /\ ebatch_size' = batch_size
    /\ ei' = 0
    /\ all_embeddings' = <<>>
    /\ ereqs' = <<>>
    /\ efailed' = {}

\* one pass of the loop over the batches; fails: the backend request raises
EmbedBatch(fails) ==
    /\ epc = "loop"
    /\ LET batch == SubSeq(etexts, ei + 1, Min(ei + ebatch_size, Len(etexts)))
           batch_num == (ei \div ebatch_size) + 1
           valid_indices == ValidIndices(batch, 1)
           valid_texts == [k \in DOMAIN valid_indices |-> batch[valid_indices[k]]]
       IN  IF valid_texts # <<>>
           THEN /\ ereqs' = Append(ereqs, [batch_num |-> batch_num, contents |-> valid_texts])
                /\ IF fails
                   THEN /\ all_embeddings' = all_embeddings \o FailedBatchResults(batch)
                        /\ efailed' = efailed \cup {batch_num}
                   ELSE /\ all_embeddings' = all_embeddings \o
                                BatchResults(batch, valid_indices, EmbedContent(valid_texts))
                        /\ efailed' = efailed
           ELSE /\ ~fails
                /\ all_embeddings' = all_embeddings \o BlankBatchResults(batch)
                /\ UNCHANGED <<ereqs, efailed>>
    /\ ei' = ei + ebatch_size
    /\ epc' = IF ei + ebatch_size >= Len(etexts) THEN "returned" ELSE "loop"
    /\ UNCHANGED <<etexts, ebatch_size>>

EmbedNext ==
    \/ \E texts \in SeqsUpTo(Texts, MaxTexts), batch_size \in 1..MaxBatchSize :
            EmbedStart(texts, batch_size)
    \/ \E fails \in BOOLEAN : EmbedBatch(fails)

(***************************************************************************)
(* One ingest after another (scripts/backfill_data.py, --state merged) of  *)
(* a source whose closed listing holds isource pull requests, numbered     *)
(* 1..isource, all merged inside the window: the list pages requested by   *)
(* _get_all_pages with the default per_page, the loop of get_merged_prs    *)
(* over the cache, and load_pull_requests.  The collected pull requests    *)
(* carry no reviews, files or labels, so only the parent kind is staged    *)
(* and merged.  The source, the file system and the warehouse answer every *)
(* request.                                                                *)
(***************************************************************************)
DefaultPerPage == 100

IngestRepo == "A"

\* the sizes of the source: empty, one item, a full page, the largest
SourceSizes == {0, 1, DefaultPerPage, MaxSource}

IngestInit ==
    /\ ipc = "idle"
    /\ iruns = 0
    /\ isource = 0
    /\ ipage = 1
    /\ ilist_requests = 0
    /\ ipr_data = 0
    /\ ipos = 0
    /\ ienrichments = 0
    /\ icache = {}
    /\ iall_prs = <<>>
    /\ istaging = EmptyBag
    /\ iprod = EmptyBag

\* main() begins; the first run fixes the source
IngestStart(n) ==
    /\ ipc \in {"idle", "done"}
    /\ iruns < MaxRuns
    /\ iruns = 0 \/ n = isource
    /\ iruns' = iruns + 1
    /\ isource' = n
    /\ ipc' = "list"
    /\ ipage' = 1
    /\ ilist_requests' = 0
    /\ ipr_data' = 0
    /\ ipos' = 0
    /\ ienrichments' = 0
    /\ iall_prs' = <<>>
    /\ UNCHANGED <<icache, istaging, iprod>>

\* one pass of the while loop of _get_all_pages for the closed listing; with
\* no pull request collected main() returns before the load
IngestListRequest ==
    /\ ipc = "list"
    /\ ilist_requests' = ilist_requests + 1
    /\ LET n == StaticPage(isource, DefaultPerPage, ipage)
           listed == LastPage(n, DefaultPerPage) \/ CeilingReached(ipage + 1)
       IN  /\ ipr_data' = ipr_data + n
           /\ ipage' = IF LastPage(n, DefaultPerPage) THEN ipage ELSE ipage + 1
           /\ ipc' = IF ~listed THEN "list"
                     ELSE IF ipr_data + n = 0 THEN "done"
                     ELSE "collect"
    /\ UNCHANGED <<iruns, isource, ipos, ienrichments, icache, iall_prs, istaging, iprod>>

\* one pass of the loop of get_merged_prs: the cached record is used, or the
\* list item is enriched and stored
IngestItem ==
    /\ ipc = "collect"
    /\ LET pr_number == ipos + 1
       IN  /\ ipos' = ipos + 1
           /\ iall_prs' = Append(iall_prs, pr_number)
           /\ IF pr_number \in icache
              THEN UNCHANGED <<ienrichments, icache>>
              ELSE /\ ienrichments' = ienrichments + 1
                   /\ icache' = icache \cup {pr_number}
           /\ ipc' = IF ipos + 1 = ipr_data THEN "load" ELSE "collect"
    /\ UNCHANGED <<iruns, isource, ipage, ilist_requests, ipr_data, istaging, iprod>>

\* load_pull_requests(repo, all_prs): the parent rows are appended to
\* staging and merged
IngestLoad ==
    /\ ipc = "load"
    /\ LET prs == [j \in DOMAIN iall_prs |-> MkPR(iall_prs[j], "a", {})]
           items == ItemsOf("prs", prs)
           embeddings == generate_batch_embeddings(TextsOf("prs", items), {})
           rows == RowsOf("prs", IngestRepo, items, embeddings, iruns)
           staged == istaging (+) SeqToBag(rows)
       IN  /\ istaging' = staged
           /\ \E S \in SourceRowSets("prs", StagingRowsOfRepo("prs", DOMAIN staged, IngestRepo)) :
                iprod' = Merge("prs", iprod, S)
    /\ ipc' = "done"
    /\ UNCHANGED <<iruns, isource, ipage, ilist_requests, ipr_data, ipos, ienrichments,
                   icache, iall_prs>>

IngestNext ==
    \/ \E n \in SourceSizes : IngestStart(n)
    \/ IngestListRequest
    \/ IngestItem
    \/ IngestLoad

(***************************************************************************)
(* get_open_prs on its own, with the title of the list item of each pass   *)
(* kept in flisted.                                                        *)
(***************************************************************************)
ListedInit == flisted = ""

ObservedOpenStart(limit) == GetOpenStart(limit) /\ flisted' = ""

ObservedOpenItem(pr_item) == OpenItem(pr_item) /\ flisted' = pr_item.title

OpenNext ==
    \/ \E limit \in 1..MaxListing : ObservedOpenStart(limit)
    \/ \E pr_item \in OpenItems : ObservedOpenItem(pr_item)

(***************************************************************************)
(* get_merged_prs on its own, called again after a call that stopped       *)
(* part-way.  fpartial keeps the numbers the stopped call had collected    *)
(* while the next call repeats its window.                                  *)
(***************************************************************************)
PartialInit == fpartial = {}

\* Abort with the entries written to the cache lost
AbortCacheLost ==
    /\ fpc = "loop"
    /\ fpc' = "raised"
    /\ fexc' = "Interrupted"
    /\ cache' = [n \in {} |-> 0]
    /\ UNCHANGED <<is_public_repo, fop, fsince, funtil, fleft, fresult, fobs, fpartial>>

\* The operation stops between two passes of its loop: the process is
\* interrupted, or an exception that nothing in the loop catches leaves it.
\* Nothing is returned; what was stored stays in the cache.
Abort ==
    /\ fpc = "loop"
    /\ fpc' = "raised"
    /\ fexc' = "Interrupted"
    /\ UNCHANGED <<cache, is_public_repo, fop, fsince, funtil, fleft, fresult, fobs, fpartial>>

RerunStart(since, until) ==
    /\ GetMergedStart(since, until)
    /\ fpartial' = IF fexc = "Interrupted" /\ fsince = since /\ funtil = until
                   THEN {fresult[i].number : i \in DOMAIN fresult}
                   ELSE {}

RerunItem(pr_item) == MergedItem(pr_item) /\ UNCHANGED fpartial

RerunNext ==
    \/ \E since \in Times, until \in Times : RerunStart(since, until)
    \/ \E pr_item \in ClosedItems : RerunItem(pr_item)
    \/ Abort

(***************************************************************************)
(* The four per-kind loads of one load_pull_requests run, taken in any     *)
(* order: every kind keeps its own order (staging append, then MERGE), the *)
(* steps of different kinds interleave freely.  Each kind reads the clock  *)
(* when its rows are built, as lines 171, 515 and 621 do.  No step raises  *)
(* here and every embedding request succeeds.                              *)
(***************************************************************************)
AnyRepo == "A"

AllDone == [k \in KindSet |-> "done"]

\* the lists given to a run: the empty list, one pull request with children
\* (blank or non-blank text), and one pull request listed twice
AnyBatches ==
    {<<>>,
     <<MkPR(1, "a", AllKids)>>,
     <<MkPR(1, "", AllKids)>>,
     <<MkPR(1, "a", {}), MkPR(1, "", {})>>}

AnyOrderInit ==
    /\ opc = AllDone
    /\ oruns = 0
    /\ oprs = <<>>
    /\ oclock = 0
    /\ ostamp = [k \in KindSet |-> 0]
    /\ oprod = EmptyTables
    /\ ostaging = EmptyTables
    /\ oprod0 = EmptyTables
    /\ ostaging0 = EmptyTables

\* the staging tables after the append of kind k, built at time now
StageTables(k, St, repo_name, prs, now) ==
    LET items == ItemsOf(k, prs)
        embeddings == generate_batch_embeddings(TextsOf(k, items), {})
    IN  [St EXCEPT ![k] = @ (+) SeqToBag(RowsOf(k, repo_name, items, embeddings, now))]

\* the rows the USING subquery of kind k may yield
MergeSources(k, St, repo_name) ==
    SourceRowSets(k, StagingRowsOfRepo(k, DOMAIN St[k], repo_name))

\* MergeTables with the child kinds joined to the production parents
MergeTablesJoinParent(k, P, S) ==
    [P EXCEPT ![k] =
        Merge(k, @, {s \in S : k = "prs" \/ \E t \in DOMAIN P["prs"] :
                                   t.repo_name = s.repo_name /\ t.number = s.pr_number})]

\* the production tables after the MERGE of kind k from the rows S
MergeTables(k, P, S) == [P EXCEPT ![k] = Merge(k, @, S)]

\* a run begins; an empty list returns at once (line 158)
AnyStart(pull_requests) ==
    /\ opc = AllDone
    /\ oruns < MaxLoads
    /\ oruns' = oruns + 1
    /\ oprs' = pull_requests
    /\ oprod0' = oprod
    /\ ostaging0' = ostaging
    /\ ostamp' = [k \in KindSet |-> 0]
    /\ opc' = IF pull_requests = <<>> THEN AllDone ELSE [k \in KindSet |-> "stage"]
    /\ UNCHANGED <<oprod, ostaging, oclock>>

\* a kind without records returns 0 before any load
AnySkip(k) ==
    /\ opc[k] = "stage"
    /\ ItemsOf(k, oprs) = <<>>
    /\ opc' = [opc EXCEPT ![k] = "done"]
    /\ UNCHANGED <<oruns, oprs, oprod, ostaging, oprod0, ostaging0, oclock, ostamp>>

\* the staging append of kind k
AnyStage(k) ==
    /\ opc[k] = "stage"
    /\ ItemsOf(k, oprs) # <<>>
    /\ LET now == IF k = "labels" THEN oclock ELSE oclock + 1
       IN  /\ oclock' = now
           /\ ostamp' = [ostamp EXCEPT ![k] = now]
           /\ ostaging' = StageTables(k, ostaging, AnyRepo, oprs, now)
    /\ opc' = [opc EXCEPT ![k] = "merge"]
    /\ UNCHANGED <<oruns, oprs, oprod, oprod0, ostaging0>>

\* the MERGE of kind k
AnyMerge(k) ==
    /\ opc[k] = "merge"
    /\ \E S \in MergeSources(k, ostaging, AnyRepo) : oprod' = MergeTables(k, oprod, S)
    /\ opc' = [opc EXCEPT ![k] = "done"]
    /\ UNCHANGED <<oruns, oprs, ostaging, oprod0, ostaging0, oclock, ostamp>>

AnyOrderNext ==
    \/ \E b \in AnyBatches : AnyStart(b)
    \/ \E k \in KindSet : AnySkip(k)
    \/ \E k \in KindSet : AnyStage(k)
    \/ \E k \in KindSet : AnyMerge(k)

\* The production tables the sequential order (lines 174-181) may leave when
\* it starts at kind i from the tables P and St and each kind observes the
\* time stamp[k].
RECURSIVE SequentialOrder(_, _, _, _, _)
SequentialOrder(i, P, St, prs, stamp) ==
    IF i > Len(KindOrder) THEN {P}
    ELSE LET k == KindOrder[i]
         IN  IF ItemsOf(k, prs) = <<>>
             THEN SequentialOrder(i + 1, P, St, prs, stamp)
             ELSE LET St2 == StageTables(k, St, AnyRepo, prs, stamp[k])
                  IN  UNION {SequentialOrder(i + 1, MergeTables(k, P, S), St2, prs, stamp) :
                                 S \in MergeSources(k, St2, AnyRepo)}

(***************************************************************************)
(* get_merged_prs and get_open_prs with the calls of get_repository_info   *)
(* counted.  is_public_repository issues the metadata request whenever     *)
(* self._is_public_repo is None (lines 375-377): once in the timeout       *)
(* computation of a list request, and in an enrichment once before the     *)
(* files fetch and, when that left None (the files fetch was skipped),     *)
(* once more in the timeout computation of the reviews request.  The       *)
(* further page requests of a listing are not counted.                     *)
(***************************************************************************)
MaxMetadata == 2     \* fmeta stops counting here

MetadataInit == fmeta = 0

\* the metadata requests of a list request
ListMetadata == IF is_public_repo = "None" THEN 1 ELSE 0

\* the metadata requests of a pass of the loop
PassMetadata ==
    IF fobs'.enrich = 1 /\ is_public_repo = "None"
    THEN IF fobs'.files = 0 THEN 2 ELSE 1
    ELSE 0

CountedMergedStart(since, until) ==
    GetMergedStart(since, until) /\ fmeta' = Min(fmeta + ListMetadata, MaxMetadata)

CountedOpenStart(limit) ==
    GetOpenStart(limit) /\ fmeta' = Min(fmeta + ListMetadata, MaxMetadata)

CountedMergedItem(pr_item) ==
    MergedItem(pr_item) /\ fmeta' = Min(fmeta + PassMetadata, MaxMetadata)

CountedOpenItem(pr_item) ==
    OpenItem(pr_item) /\ fmeta' = Min(fmeta + PassMetadata, MaxMetadata)

MetadataNext ==
    \/ \E since \in Times, until \in Times : CountedMergedStart(since, until)
    \/ \E limit \in 1..MaxListing : CountedOpenStart(limit)
    \/ \E pr_item \in ClosedItems : CountedMergedItem(pr_item)
    \/ \E pr_item \in OpenItems : CountedOpenItem(pr_item)

(***************************************************************************)
(* get_merged_prs on its own, with the cache entries that were stored      *)
(* after a failed files or reviews fetch kept in fincomplete: the number,  *)
(* the window of the call that stored it, and whether that call is over.   *)
(***************************************************************************)
IncompleteInit == fincomplete = {}

RefetchStart(since, until) ==
    /\ GetMergedStart(since, until)
    /\ fincomplete' = {[e EXCEPT !.earlier = TRUE] : e \in fincomplete}

RefetchItem(pr_item) ==
    /\ MergedItem(pr_item)
    /\ fincomplete' =
          IF fobs'.stored = 0 THEN fincomplete
          ELSE {e \in fincomplete : e.number # fobs'.number}
               \cup (IF fobs'.files_failed \/ fobs'.reviews_failed
                     THEN {[number |-> fobs'.number, since |-> fsince, until |-> funtil,
                            earlier |-> FALSE]}
                     ELSE {})

RefetchNext ==
    \/ \E since \in Times, until \in Times : RefetchStart(since, until)
    \/ \E pr_item \in ClosedItems : RefetchItem(pr_item)

(***************************************************************************)
(* Load runs of one kind on one repository that overlap: two loaders work  *)
(* on the same tables.  A run reads the clock (lines 171, 515, 621),       *)
(* appends its rows to staging and runs its MERGE; the steps of the two    *)
(* runs interleave freely.  A load job and a MERGE statement are atomic.   *)
(* No step raises here and every embedding request succeeds.               *)
(***************************************************************************)
Slots == {1, 2}

OverlapInit ==
    /\ wpc = [r \in Slots |-> "done"]
    /\ wloads = 0
    /\ wkind = "prs"
    /\ wprs = [r \in Slots |-> <<>>]
    /\ wstamp = [r \in Slots |-> 0]
    /\ wclock = 0
    /\ wprod = EmptyTables
    /\ wstaging = EmptyTables
    /\ wlast = [append |-> 0, merge |-> 0]

\* a run begins in slot r: its cached_at is read
OverlapStart(r, k, pull_requests) ==
    /\ wpc[r] = "done"
    /\ wloads < MaxLoads
    /\ wloads = 0 \/ k = wkind
    /\ ItemsOf(k, pull_requests) # <<>>
    /\ wloads' = wloads + 1
    /\ wkind' = k
    /\ wprs' = [wprs EXCEPT ![r] = pull_requests]
    /\ wclock' = wclock + 1
    /\ wstamp' = [wstamp EXCEPT ![r] = wclock + 1]
    /\ wpc' = [wpc EXCEPT ![r] = "append"]
    /\ UNCHANGED <<wprod, wstaging, wlast>>

\* the staging append of the run in slot r
OverlapAppend(r) ==
    /\ wpc[r] = "append"
    /\ wstaging' = StageTables(wkind, wstaging, AnyRepo, wprs[r], wstamp[r])
    /\ wpc' = [wpc EXCEPT ![r] = "merge"]
    /\ wlast' = [wlast EXCEPT !.append = r]
    /\ UNCHANGED <<wloads, wkind, wprs, wstamp, wclock, wprod>>

\* the MERGE of the run in slot r
OverlapMerge(r) ==
    /\ wpc[r] = "merge"
    /\ \E S \in MergeSources(wkind, wstaging, AnyRepo) : wprod' = MergeTables(wkind, wprod, S)
    /\ wpc' = [wpc EXCEPT ![r] = "done"]
    /\ wlast' = [wlast EXCEPT !.merge = r]
    /\ UNCHANGED <<wloads, wkind, wprs, wstamp, wclock, wstaging>>

OverlapNext ==
    \/ \E r \in Slots, k \in KindSet \ {"labels"}, b \in AnyBatches : OverlapStart(r, k, b)
    \/ \E r \in Slots : OverlapAppend(r)
    \/ \E r \in Slots : OverlapMerge(r)

(***************************************************************************)
(* PRCache with its directories: the entry and index files of a            *)
(* repository live in cache_dir / repository.replace("/", "_").  A         *)
(* repository name is the sequence of its characters.  The file system     *)
(* works and nothing else writes to the directories.                       *)
(***************************************************************************)
RepoNames ==
    {<<"a", "/", "b">>, <<"a", "/", "b", "_", "c">>, <<"a", "_", "b", "/", "c">>}

\* _get_repo_cache_dir: repository.replace("/", "_")
get_repo_cache_dir(repository) ==
    [i \in DOMAIN repository |-> IF repository[i] = "/" THEN "_" ELSE repository[i]]

CacheDirs == {get_repo_cache_dir(repository) : repository \in RepoNames}

\* _get_pr_cache_file
get_pr_cache_file(repository, pr_number) == <<get_repo_cache_dir(repository), pr_number>>

\* no entry file; also stands for the None that get_pr returns
NoFile == [number |-> 0, title |-> ""]

DirsInit ==
    /\ dfiles = [f \in CacheDirs \X Numbers |-> NoFile]
    /\ dindex = [d \in CacheDirs |-> NoIndex]
    /\ dlast = [op |-> "none", repo |-> <<>>]

\* PRCache.has_pr
DirHasPr(repository, pr_number) == dfiles[get_pr_cache_file(repository, pr_number)] # NoFile

\* PRCache.get_pr: the snapshot, or None
DirGetPr(repository, pr_number) == dfiles[get_pr_cache_file(repository, pr_number)]

\* PRCache.get_cached_pr_numbers
DirGetCachedPrNumbers(repository) ==
    IF dindex[get_repo_cache_dir(repository)].kind = "list"
    THEN dindex[get_repo_cache_dir(repository)].prs
    ELSE {}

\* PRCache.store_pr with _update_index
DirStorePr(repository, pr) ==
    /\ dfiles' = [dfiles EXCEPT ![get_pr_cache_file(repository, pr.number)] = pr]
    /\ dindex' = [dindex EXCEPT ![get_repo_cache_dir(repository)] =
                     update_index(@, pr.number)]
    /\ dlast' = [op |-> "store_pr", repo |-> repository]

\* PRCache.cleanup_old_cache; old: the entry files older than the cutoff
DirCleanupOldCache(repository, old) ==
    /\ dfiles' = [f \in DOMAIN dfiles |->
                    IF f[1] = get_repo_cache_dir(repository) /\ f[2] \in old
                    THEN NoFile ELSE dfiles[f]]
    /\ dlast' = [op |-> "cleanup_old_cache", repo |-> repository]
    /\ UNCHANGED dindex

DirsNext ==
    \/ \E repository \in RepoNames, n \in Numbers, title \in Titles :
            DirStorePr(repository, [number |-> n, title |-> title])
    \/ \E repository \in RepoNames, old \in SUBSET Numbers :
            DirCleanupOldCache(repository, old)

(***************************************************************************)
(* The specifications.                                                     *)
(***************************************************************************)
Init == LoadInit /\ PagesInit /\ FetchInit /\ RequestInit /\ CacheInit /\ EmbedInit /\ IngestInit
        /\ ListedInit /\ PartialInit /\ AnyOrderInit
        /\ MetadataInit /\ IncompleteInit /\ OverlapInit /\ DirsInit

Next ==
    \/ LoadNext /\ UNCHANGED <<gvars, fvars, rvars, cvars, evars, ivars, hvars, ovars, wvars, dvars>>
    \/ PagesNext /\ UNCHANGED <<lvars, fvars, rvars, cvars, evars, ivars, hvars, ovars, wvars, dvars>>
    \/ FetchNext /\ UNCHANGED <<lvars, gvars, rvars, cvars, evars, ivars, hvars, ovars, wvars, dvars>>
    \/ RequestNext /\ UNCHANGED <<lvars, gvars, fvars, cvars, evars, ivars, hvars, ovars, wvars, dvars>>
    \/ CacheNext /\ UNCHANGED <<lvars, gvars, fvars, rvars, evars, ivars, hvars, ovars, wvars, dvars>>
    \/ EmbedNext /\ UNCHANGED <<lvars, gvars, fvars, rvars, cvars, ivars, hvars, ovars, wvars, dvars>>
    \/ IngestNext /\ UNCHANGED <<lvars, gvars, fvars, rvars, cvars, evars, hvars, ovars, wvars, dvars>>
    \/ OpenNext /\ UNCHANGED <<lvars, gvars, rvars, cvars, evars, ivars, fpartial, fmeta, fincomplete, ovars, wvars, dvars>>
    \/ RerunNext /\ UNCHANGED <<lvars, gvars, rvars, cvars, evars, ivars, flisted, fmeta, fincomplete, ovars, wvars, dvars>>
    \/ AnyOrderNext /\ UNCHANGED <<lvars, gvars, fvars, rvars, cvars, evars, ivars, hvars, wvars, dvars>>
    \/ MetadataNext /\ UNCHANGED <<lvars, gvars, rvars, cvars, evars, ivars, flisted, fpartial, fincomplete, ovars, wvars, dvars>>
    \/ RefetchNext /\ UNCHANGED <<lvars, gvars, rvars, cvars, evars, ivars, flisted, fpartial, fmeta, ovars, wvars, dvars>>
    \/ OverlapNext /\ UNCHANGED <<lvars, gvars, fvars, rvars, cvars, evars, ivars, hvars, ovars, dvars>>
    \/ DirsNext /\ UNCHANGED <<lvars, gvars, fvars, rvars, cvars, evars, ivars, hvars, ovars, wvars>>

Spec == Init /\ [][Next]_vars

SpecLoad == Init /\ [][LoadNext /\ UNCHANGED <<gvars, fvars, rvars, cvars, evars, ivars, hvars, ovars, wvars, dvars>>]_vars

SpecPages == Init /\ [][PagesNext /\ UNCHANGED <<lvars, fvars, rvars, cvars, evars, ivars, hvars, ovars, wvars, dvars>>]_vars

SpecFetch == Init /\ [][FetchNext /\ UNCHANGED <<lvars, gvars, rvars, cvars, evars, ivars, hvars, ovars, wvars, dvars>>]_vars

SpecRequest == Init /\ [][RequestNext /\ UNCHANGED <<lvars, gvars, fvars, cvars, evars, ivars, hvars, ovars, wvars, dvars>>]_vars

SpecCache == Init /\ [][CacheNext /\ UNCHANGED <<lvars, gvars, fvars, rvars, evars, ivars, hvars, ovars, wvars, dvars>>]_vars

SpecEmbed == Init /\ [][EmbedNext /\ UNCHANGED <<lvars, gvars, fvars, rvars, cvars, ivars, hvars, ovars, wvars, dvars>>]_vars

SpecIngest == Init /\ [][IngestNext /\ UNCHANGED <<lvars, gvars, fvars, rvars, cvars, evars, hvars, ovars, wvars, dvars>>]_vars

SpecOpen == Init /\ [][OpenNext /\ UNCHANGED <<lvars, gvars, rvars, cvars, evars, ivars, fpartial, fmeta, fincomplete, ovars, wvars, dvars>>]_vars

SpecRerun == Init /\ [][RerunNext /\ UNCHANGED <<lvars, gvars, rvars, cvars, evars, ivars, flisted, fmeta, fincomplete, ovars, wvars, dvars>>]_vars

SpecAnyOrder == Init /\ [][AnyOrderNext /\ UNCHANGED <<lvars, gvars, fvars, rvars, cvars, evars, ivars, hvars, wvars, dvars>>]_vars

SpecMetadata == Init /\ [][MetadataNext /\ UNCHANGED <<lvars, gvars, rvars, cvars, evars, ivars, flisted, fpartial, fincomplete, ovars, wvars, dvars>>]_vars

SpecRefetch == Init /\ [][RefetchNext /\ UNCHANGED <<lvars, gvars, rvars, cvars, evars, ivars, flisted, fpartial, fmeta, ovars, wvars, dvars>>]_vars

SpecOverlap == Init /\ [][OverlapNext /\ UNCHANGED <<lvars, gvars, fvars, rvars, cvars, evars, ivars, hvars, ovars, dvars>>]_vars

SpecDirs == Init /\ [][DirsNext /\ UNCHANGED <<lvars, gvars, fvars, rvars, cvars, evars, ivars, hvars, ovars, wvars>>]_vars

(***************************************************************************)
(* Properties of the cache read-through.                                   *)
(***************************************************************************)
\* this step is a pass of the loop that consulted the cache for a number
\* whose cached snapshot had one of the states `states`
HitStep(states) ==
    /\ fpc = "loop"
    /\ fleft' = fleft - 1
    /\ fobs'.consulted
    /\ has_pr(fobs'.number)
    /\ get_pr(fobs'.number).state \in states

\* C6: a pass of get_merged_prs over a listed parent whose cached snapshot
\* is in a terminal state issues no files and no reviews request, leaves
\* the cache as it is and returns the cached snapshot.
C6_TerminalHitShortCircuits ==
    [][(HitStep(Terminal) /\ fop = "merged") =>
            /\ fobs'.enrich = 0 /\ fobs'.files = 0 /\ fobs'.reviews = 0
            /\ fobs'.stored = 0
            /\ cache' = cache
            /\ fresult' = Append(fresult, get_pr(fobs'.number))]_vars

\* C6's case: get_merged_prs has just returned the merged snapshot the cache
\* held for a listed parent, without enriching it.
C6_Witness ==
    /\ fop = "merged"
    /\ fobs.consulted
    /\ fobs.enrich = 0
    /\ Len(fresult) > 0
    /\ fresult[Len(fresult)].state = "merged"
    /\ fresult[Len(fresult)] = cache[fobs.number]

\* C7: in both operations a pass of the loop that hits an open snapshot
\* enriches exactly once and overwrites the cache entry with the result.
C7_OpenHitReenriches ==
    [][HitStep({"open"}) =>
            /\ fobs'.enrich = 1
            /\ fobs'.stored = 1
            /\ cache'[fobs'.number] = fresult'[Len(fresult')]]_vars

\* C8: once the cache holds a merged or closed snapshot of a number, no
\* step of either operation enriches that number or rewrites its entry.
C8_TerminalSnapshotFrozen ==
    [][\A n \in DOMAIN cache :
            get_pr(n).state \in Terminal =>
                /\ cache'[n] = cache[n]
                /\ (fpc = "loop" /\ fleft' = fleft - 1 /\ fobs'.number = n) =>
                        (fobs'.enrich = 0 /\ fobs'.stored = 0)]_vars

\* this step is a pass of the loop of get_merged_prs or get_open_prs
PassStep == fpc = "loop" /\ fleft' = fleft - 1

\* C14: when a request made during a pass raises RateLimitError, the
\* operation raises RateLimitError to its caller.
C14_RateLimitPropagates ==
    [][(PassStep /\ fobs'.rate_limited) =>
            (fpc' = "raised" /\ fexc' = "RateLimitError")]_vars

\* C16: when the files or reviews fetch of a pass fails, the operation goes
\* on: the parent is returned with the failed child collection empty and the
\* loop continues with the items left.
C16_FailedEnrichmentLeavesEmpty ==
    [][(PassStep /\ (fobs'.files_failed \/ fobs'.reviews_failed)) =>
            /\ fpc' = (IF fleft = 1 THEN "returned" ELSE "loop")
            /\ Len(fresult') = Len(fresult) + 1
            /\ fresult'[Len(fresult')].number = fobs'.number
            /\ (fobs'.files_failed => fresult'[Len(fresult')].file_stats = 0)
            /\ (fobs'.reviews_failed => fresult'[Len(fresult')].reviews = 0)]_vars

\* C23: every record get_merged_prs(since, until) has collected is a merged
\* pull request whose merged_at lies in [since, until], whether it was built
\* from the list item or read from the cache.
C23_ReturnedAreMergedInWindow ==
    fop = "merged" =>
        \A i \in DOMAIN fresult :
            /\ fresult[i].state = "merged"
            /\ fresult[i].merged_at # NoTime
            /\ fsince <= fresult[i].merged_at
            /\ fresult[i].merged_at <= funtil

\* C24: a pass of get_open_prs returns, and stores in the cache, a record
\* with the parent-level fields of the list item of the pass, also when an
\* open snapshot of the parent was cached.
C24_OpenCarriesListedFields ==
    [][(PassStep /\ fop = "open") =>
            /\ fresult'[Len(fresult')].title = flisted'
            /\ cache'[fobs'.number].title = flisted']_vars

\* this step is a pass of a get_merged_prs that repeats the window of a call
\* that stopped part-way, over a listed parent inside the window
RerunPass == PassStep /\ fpartial # {} /\ fobs'.consulted

\* C26: when get_merged_prs stopped part-way and is called again with the
\* same window, a parent the stopped call had collected is returned from the
\* cache without any enrichment request, and a parent without cache entry is
\* enriched and stored.
C26_RerunUsesPartialProgress ==
    [][RerunPass =>
            /\ fobs'.number \in fpartial =>
                    /\ fobs'.enrich = 0 /\ fobs'.files = 0 /\ fobs'.reviews = 0
                    /\ cache' = cache
                    /\ fresult' = Append(fresult, get_pr(fobs'.number))
            /\ fobs'.enrich = 1 => fobs'.number \notin fpartial
            /\ ~has_pr(fobs'.number) => (fobs'.enrich = 1 /\ fobs'.stored = 1)]_vars

\* C26's case: the repeated call has returned one parent from the cache and
\* enriched another.
C26_Witness ==
    /\ fpc = "returned"
    /\ Len(fresult) = 2
    /\ fresult[1].number \in fpartial
    /\ fresult[2].number \notin fpartial
    /\ fobs.enrich = 1

\* C35: over the lifetime of a collector get_repository_info is called at
\* most once to resolve the visibility.
C35_MetadataRequestedOnce == fmeta <= 1

\* this step is a pass of get_merged_prs over a merged parent in the window
\* whose cache entry an earlier call with the same window stored after a
\* failed files or reviews fetch
IncompletePass ==
    /\ PassStep
    /\ fobs'.consulted
    /\ [number |-> fobs'.number, since |-> fsince, until |-> funtil, earlier |-> TRUE]
           \in fincomplete

\* C36: a parent whose files or reviews fetch failed in a get_merged_prs is
\* enriched again by a later get_merged_prs over the same window.
C36_FailedFetchNotFrozen == [][IncompletePass => fobs'.enrich = 1]_vars

(***************************************************************************)
(* Properties of _make_request.                                            *)
(***************************************************************************)
\* this step is a urlopen call
HttpCall == rcalls' = rcalls + 1

\* C11: no urlopen call is made while the recorded remaining count is
\* exhausted (<= 1) and the recorded reset time is still in the future.
C11_NoCallWhileExhausted ==
    [][HttpCall => ~(rate_limit_remaining <= 1 /\ rnow < rate_limit_reset)]_vars

\* C12: a call makes at most max_retries + 1 urlopen calls; it returns as
\* soon as one succeeds; after transient failures only it raises
\* GitHubAPIError exactly when attempt max_retries + 1 has failed.
C12_BoundedRetries ==
    /\ rcalls <= max_retries + 1
    /\ (rpc = "attempt" => rcalls <= max_retries)
    /\ (rlast = "ok" => rpc = "returned")
    /\ (rpc = "returned" => rlast = "ok")
    /\ (rlast \in Transient) =>
            /\ (rcalls = max_retries + 1 => rpc = "raised" /\ rexc = "GitHubAPIError")
            /\ (rcalls < max_retries + 1 => rpc = "attempt")

\* C12's case: the default four attempts, all failed, then GitHubAPIError.
C12_Witness ==
    /\ max_retries = DefaultMaxRetries
    /\ rcalls = DefaultMaxRetries + 1
    /\ rsleeps = DefaultMaxRetries
    /\ rlast \in Transient
    /\ rpc = "raised"

\* C13: the pass that meets a rate-limit response raises RateLimitError at
\* once: no backoff sleep, no further attempt, at any attempt number.
C13_RateLimitRaisedAtOnce ==
    [][(HttpCall /\ rlast' = "rate_limit_403") =>
            /\ rpc' = "raised"
            /\ rexc' = "RateLimitError"
            /\ rsleeps' = rsleeps
            /\ rnow' = rnow]_vars

\* C13's case: a rate-limit response met on a retry.
C13_Witness ==
    /\ rlast = "rate_limit_403"
    /\ rcalls >= 2
    /\ rexc = "RateLimitError"

\* C15: the pass that meets a 404 response raises at once: no backoff
\* sleep, no further attempt, at any attempt number.
C15_NotFoundRaisedAtOnce ==
    [][(HttpCall /\ rlast' = "not_found_404") =>
            /\ rpc' = "raised"
            /\ rexc' = "GitHubAPIError"
            /\ rsleeps' = rsleeps
            /\ rnow' = rnow]_vars

\* C15's case: a 404 response met on a retry.
C15_Witness ==
    /\ rlast = "not_found_404"
    /\ rcalls >= 2
    /\ rpc = "raised"

\* this step is a urlopen call that received a response
ResponseStep == HttpCall /\ rheaders' # NoHeaders

\* C31: after every response received, error responses included, the
\* recorded remaining count and reset time are those the response carried.
C31_HeadersRecorded ==
    [][ResponseStep =>
            /\ rate_limit_remaining' = rheaders'[1]
            /\ rate_limit_reset' = rheaders'[2]]_vars

\* HTTP client errors other than the rate-limit response
ClientErrors == {"forbidden_403", "not_found_404", "client_4xx"}

\* C32: the pass that meets an HTTP client error other than the rate-limit
\* response (401, 422, ...) raises at once: a single attempt, no backoff
\* sleep; only timeouts, connection errors and 5xx responses are retried.
C32_ClientErrorsNotRetried ==
    [][(HttpCall /\ rlast' \in ClientErrors) =>
            /\ rpc' = "raised"
            /\ rexc' = "GitHubAPIError"
            /\ rsleeps' = rsleeps
            /\ rnow' = rnow]_vars

(***************************************************************************)
(* Properties of PRCache.                                                  *)
(***************************************************************************)
\* C17: whatever the entry and index files hold, no cache operation raises,
\* and get_pr on an unreadable entry returns None.
C17_CacheNeverRaises ==
    [][cres' # cres =>
            /\ cres'.exc = "None"
            /\ (cres'.op = "get_pr" /\ cfiles[<<cres'.repo, cres'.number>>] \in CorruptEntries) =>
                    ~cres'.found]_vars

\* C25: the ids get_cached_pr_numbers returns for a repository are exactly
\* the ids for which has_pr is true.
C25_IndexMatchesEntries ==
    [][(cres' # cres /\ cres'.op = "get_cached_pr_numbers") =>
            cres'.numbers = {n \in Numbers : cfiles[<<cres'.repo, n>>] # "absent"}]_vars

\* what has_pr, get_pr and get_cached_pr_numbers return for a repository
Answers(repository) ==
    [has_pr |-> [n \in Numbers |-> DirHasPr(repository, n)],
     get_pr |-> [n \in Numbers |-> DirGetPr(repository, n)],
     get_cached_pr_numbers |-> DirGetCachedPrNumbers(repository)]

\* C40: store_pr and cleanup_old_cache on a repository change nothing of
\* what has_pr, get_pr and get_cached_pr_numbers return for any other
\* repository name.
C40_RepositoriesIsolated ==
    [][\A repository \in RepoNames :
            repository # dlast'.repo => Answers(repository)' = Answers(repository)]_vars

(***************************************************************************)
(* Properties of generate_batch_embeddings.                                *)
(***************************************************************************)
\* the batch_num of position i of texts
BatchNumOf(i) == ((i - 1) \div ebatch_size) + 1

\* C18: the list returned is as long as texts, and slot i is null or the
\* vector of texts[i].
C18_SameLengthSameOrder ==
    epc = "returned" =>
        /\ Len(all_embeddings) = Len(etexts)
        /\ \A i \in DOMAIN etexts :
                all_embeddings[i] = None \/ all_embeddings[i] = Vec(etexts[i])

\* C18's case: several batches, one of them failed, a blank text before a
\* text that got its vector.
C18_Witness ==
    /\ epc = "returned"
    /\ Len(ereqs) >= 2
    /\ efailed # {}
    /\ \E i \in DOMAIN etexts, j \in DOMAIN etexts :
            /\ i < j
            /\ BatchNumOf(i) = BatchNumOf(j)
            /\ Blank(etexts[i])
            /\ all_embeddings[j] = Vec(etexts[j])

\* C19: no request holds a blank text, a batch of blank texts only makes no
\* request, and the slot of a blank text is null.
C19_BlankNeverSent ==
    /\ \A r \in DOMAIN ereqs :
            /\ \A k \in DOMAIN ereqs[r].contents : ereqs[r].contents[k] \notin {"", " "}
            /\ \E i \in DOMAIN etexts :
                    BatchNumOf(i) = ereqs[r].batch_num /\ etexts[i] \notin {"", " "}
    /\ \A i \in DOMAIN all_embeddings :
            etexts[i] \in {"", " "} => all_embeddings[i] = None

\* C19's case: a call that met a batch of blank texts only and a batch that
\* mixes blank and other texts.
C19_Witness ==
    /\ epc = "returned"
    /\ ebatch_size = 2
    /\ Len(etexts) = 3
    /\ etexts[1] = " "
    /\ etexts[2] = "a"
    /\ etexts[3] = ""
    /\ Len(ereqs) = 1

\* C20: after a failed request the call goes on: the slots of the failed
\* batches are null, every other batch with a text to embed is requested,
\* and its slots hold what the backend answered.
C20_FailureIsolatedToBatch ==
    epc = "returned" =>
        /\ Len(all_embeddings) = Len(etexts)
        /\ \A i \in DOMAIN etexts :
                /\ BatchNumOf(i) \in efailed => all_embeddings[i] = None
                /\ (BatchNumOf(i) \notin efailed /\ ~Blank(etexts[i])) =>
                        /\ all_embeddings[i] = Vec(etexts[i])
                        /\ \E r \in DOMAIN ereqs : ereqs[r].batch_num = BatchNumOf(i)

\* C20's case: the first batch failed and a later one was still requested.
C20_Witness ==
    /\ epc = "returned"
    /\ 1 \in efailed
    /\ Len(etexts) = 3
    /\ all_embeddings[1] = None
    /\ all_embeddings[3] = Vec(etexts[3])

(***************************************************************************)
(* Properties of an ingest, end to end.                                    *)
(***************************************************************************)
\* the first ingest, on an empty cache and empty tables, has completed
FirstIngestDone == ipc = "done" /\ iruns = 1

\* C22: one ingest of a source of isource merged parents, on an empty cache
\* and empty production tables, makes one list request per full page and one
\* more, enriches every parent once, and leaves isource cache entries and
\* isource parent rows with pairwise distinct (repository, number); for 150
\* parents listed as 100 + 50: 2 list requests, 150 enrichments, 150 cache
\* entries, 150 rows.
C22_EndToEnd ==
    FirstIngestDone =>
        /\ ilist_requests = (isource \div DefaultPerPage) + 1
        /\ ienrichments = isource
        /\ Cardinality(icache) = isource
        /\ BagCardinality(iprod) = isource
        /\ UniqueKeys("prs", iprod)
        /\ isource = 150 => /\ ilist_requests = 2
                            /\ ienrichments = 150
                            /\ Cardinality(icache) = 150
                            /\ BagCardinality(iprod) = 150

\* C22's case: the ingest of 150 parents has completed after a second page.
C22_Witness ==
    /\ FirstIngestDone
    /\ isource = 150
    /\ ipage = 2
    /\ ipr_data = 150
    /\ BagCardinality(iprod) = 150

(***************************************************************************)
(* Properties of the per-kind loads taken in any order.                    *)
(***************************************************************************)
\* C34: when the four per-kind loads of a run have been executed in any
\* order or interleaving, the production tables are tables that the
\* sequential order prs, reviews, files, labels leaves from the same start,
\* each kind observing the same cached_at.
C34_AnyOrderAsSequential ==
    (opc = AllDone /\ oruns > 0) =>
        oprod \in SequentialOrder(1, oprod0, ostaging0, oprs, ostamp)

\* C34's case: a second run over non-empty tables has completed with the
\* files staged before the reviews and the reviews before the parents.
C34_Witness ==
    /\ opc = AllDone
    /\ oruns = 2
    /\ oprod0 # EmptyTables
    /\ oprod # oprod0
    /\ 0 < ostamp["files"]
    /\ ostamp["files"] < ostamp["reviews"]
    /\ ostamp["reviews"] < ostamp["prs"]

(***************************************************************************)
(* Properties of overlapping load runs.                                    *)
(***************************************************************************)
\* C37: when two runs on the same repository and kind have interleaved
\* their staging appends and MERGEs in any order and both MERGEs have
\* completed, every production row is a staged row with the greatest
\* cached_at of its key, and no key is in production twice.
C37_OverlappingRunsConverge ==
    (wloads >= 2 /\ \A r \in Slots : wpc[r] = "done") =>
        \A t \in DOMAIN wprod[wkind] :
            /\ wprod[wkind][t] = 1
            /\ \A u \in DOMAIN wprod[wkind] : RowKey(wkind, u) = RowKey(wkind, t) => u = t
            /\ t \in DOMAIN wstaging[wkind]
            /\ \A q \in DOMAIN wstaging[wkind] :
                   RowKey(wkind, q) = RowKey(wkind, t) => q.cached_at <= t.cached_at

\* C37's case: the run that read the clock first appended last and merged
\* last, and production holds a row of the other run.
C37_Witness ==
    /\ wloads = 2
    /\ \A r \in Slots : wpc[r] = "done"
    /\ wstamp[1] < wstamp[2]
    /\ wlast = [append |-> 1, merge |-> 1]
    /\ \E t \in DOMAIN wprod[wkind] : t.cached_at = wstamp[2] /\ t.body = ""
    /\ \E q \in DOMAIN wstaging[wkind] : q.cached_at = wstamp[1] /\ q.body = "a"

(***************************************************************************)
(* Properties of _get_all_pages.                                           *)
(***************************************************************************)
\* a listing whose total is per_page * k with k >= 1 has been returned
ExactMultipleReturned ==
    /\ gpc = "returned"
    /\ gsrc.static
    /\ gsrc.total >= gper_page
    /\ gsrc.total % gper_page = 0

\* C9 as stated: a listing of per_page * k items is returned after exactly
\* k page requests.
C9_NoExtraRequest ==
    ExactMultipleReturned => greqs = gsrc.total \div gper_page

\* C9 as the code has it: a listing of per_page * k items is returned after
\* k + 1 page requests, the last answered by an empty page, unless the
\* ceiling of MaxPages pages ends it at MaxPages requests.
C9_OneExtraRequest ==
    ExactMultipleReturned =>
        LET k == gsrc.total \div gper_page
        IN  IF k < MaxPages
            THEN greqs = k + 1 /\ glast = 0 /\ gresult = gsrc.total
            ELSE greqs = MaxPages /\ gresult = MaxPages * gper_page

\* C9's case: a listing of two full pages returned.
C9_Witness ==
    /\ ExactMultipleReturned
    /\ gsrc.total = 2 * gper_page
    /\ greqs = 3

\* C10: a listing takes at most MaxPages page requests, and when the
\* MaxPages-th response is a full page the loop ends by returning all the
\* items collected, without raising.
C10_PageCeiling ==
    /\ greqs <= MaxPages
    /\ (gpc = "request" => greqs < MaxPages)
    /\ (greqs = MaxPages /\ glast = gper_page) =>
            (gpc = "returned" /\ gresult = gitems /\ gitems = MaxPages * gper_page)

\* C10's case: a source that always answers a full page, stopped at the
\* ceiling.
C10_Witness ==
    /\ ~gsrc.static
    /\ gpc = "returned"
    /\ greqs = MaxPages
    /\ glast = gper_page
    /\ gresult = MaxPages * gper_page

====
